---- MODULE Spec2Model ----
(***************************************************************************)
(* A state-machine model of the memento-mcp memory subsystem:              *)
(*   FragmentFactory  (src/unnamed/part_005, second half)                  *)
(*   FragmentStore    (src/unnamed/part_006, the agent-scoped class)       *)
(*   FragmentIndex / FragmentSearch (src/lib/memory/FragmentIndex.js)      *)
(*   MemoryConsolidator (src/unnamed/part_005, first class)                *)
(*   MemoryManager    (src/lib/memory/MemoryManager.js, first class)       *)
(* Every action is one whole handler of the MemoryManager facade.          *)
(*                                                                         *)
(* Conventions                                                             *)
(*   - importance is the REAL column scaled to thousandths (0.5 = 500);    *)
(*   - time is counted in days; an optional value is <<>> or <<v>>;        *)
(*   - a fragment's text is one of a few named contents, with its length   *)
(*     and keywords given by tables;                                       *)
(*   - columns no modelled operation branches on (source, utility_score,   *)
(*     verified_at) are not part of the state.                             *)
(***************************************************************************)
EXTENDS Integers, Sequences, FiniteSets, TLC

VARIABLES
  fragments,   \* agent_memory.fragments: id -> row (DOMAIN = the stored ids)
  links,       \* agent_memory.fragment_links: set of [from, to, rel]
  versions,    \* agent_memory.fragment_versions: sequence of archived rows
  kwIdx,       \* redis frag:kw:<keyword> -> set of ids
  tpIdx,       \* redis frag:tp:<topic>   -> set of ids
  tyIdx,       \* redis frag:ty:<type>    -> set of ids
  recent,      \* redis frag:recent, ids by ascending score
  hot,         \* redis frag:hot:<id> -> cached fragment body
  evalQueue,   \* redis queue memory_evaluation
  pending,     \* redis list frag:pending_contradictions
  lastCheckAt, \* redis frag:contradiction_check_at: <<>> or <<created_at, id>>
  nextId,      \* the next fresh fragment id
  now,         \* wall clock, in days
  ops,         \* number of facade calls made so far
  OPENAI_API_KEY, \* whether an embedding API key is configured
  cacheWrites, \* hot-cache writes a search started without awaiting them
  wm,          \* redis frag:wm:<sessionId> -> working-memory entries
  activity,    \* redis frag:activity:<sessionId> -> the session's activity log
  evaluator,   \* the MemoryEvaluator worker: its running flag, the place and
               \* job of its loop, and the loops later start() calls added
  poolPrimary, \* the connection pool of the store: "open" or "closed"
  shutdown,    \* how far gracefulShutdown has got
  calls,       \* the facade calls in flight: per client, its place and locals
  conns,       \* the pooled connections: held or free, in a transaction, scope
  streamableSessions, \* the open sessions of the HTTP transport
  nliModel,    \* NLIClassifier.js: _tokenizer, _model, _loading, _failed, and
               \* the loads started so far
               \* (each at its await, or settled)
  last         \* the last facade call: its name, arguments and return value

vars == <<fragments, links, versions, kwIdx, tpIdx, tyIdx, recent, hot,
          evalQueue, pending, lastCheckAt, nextId, now, ops, OPENAI_API_KEY,
          cacheWrites, wm, activity, evaluator, poolPrimary, shutdown, calls, conns, streamableSessions, nliModel, last>>

\* The process around the facade.
server == <<evaluator, poolPrimary, shutdown, calls, conns, streamableSessions, nliModel>>

---------------------------------------------------------------------------
(* Bounds of the model *)

MaxFrags == 3
MaxOps == 3

---------------------------------------------------------------------------
(* Value types *)

Scale == 1000

None == <<>>
Some(v) == <<v>>
IsSome(o) == Len(o) > 0
Get(o) == o[1]

Agents == {"default", "a1", "system"}
MaintenanceScopes == {"system", "admin"}
Sessions == {"s1"}

\* The clients whose calls may overlap, and a client with no call in flight.
Clients == {"c1", "c2"}
Idle == [pc |-> "idle"]

\* The connections of the pool, and a connection as the pool opens it.
Conns == {"k1", "k2"}
Fresh == [held |-> FALSE, tx |-> FALSE, scope |-> None, broken |-> FALSE]
Topics == {"t1", "t2", "session_reflect"}
Keywords == {"k1", "k2"}
Types == {"fact", "decision", "error", "preference", "procedure", "relation"}
RelationTypes ==
  {"related", "caused_by", "resolved_by", "part_of", "contradicts", "superseded_by"}

\* The texts: "cA", "cB", "cC" are plain, "cP" carries a password field and
\* "cR" is its redacted form, "cE" is an error report and "cF" the same with
\* the resolved mark reflect puts in front, "cQ" is a procedure.

CeilDiv(a, b) == (a + b - 1) \div b

RECURSIVE SeqSum(_)
SeqSum(s) == IF s = <<>> THEN 0 ELSE Head(s) + SeqSum(Tail(s))

Range(s) == {s[i] : i \in 1..Len(s)}

RECURSIVE SeqsOf(_)
SeqsOf(S) ==
  IF S = {} THEN {<<>>}
  ELSE UNION {{<<x>> \o s : s \in SeqsOf(S \ {x})} : x \in S}

---------------------------------------------------------------------------
(* FragmentFactory *)

MAX_FRAGMENT_LENGTH == 300

\* Length in characters of each text.
ContentLen(c) ==
  CASE c = "cA" -> 5
    [] c = "cB" -> 7
    [] c = "cC" -> 40
    [] c = "cP" -> 22
    [] c = "cR" -> 28
    [] c = "cE" -> 6
    [] c = "cF" -> 12
    [] c = "cQ" -> 9
    [] c = "cS" -> 60
    [] c = "cG" -> 30
    [] c = "cL" -> 300
    [] OTHER -> 0

\* _redactPII: the password pattern of "cP" is replaced, other texts hold no PII.
RedactPII(c) == IF c = "cP" THEN "cR" ELSE c

\* create() truncates to MAX_FRAGMENT_LENGTH; every modelled text is shorter.
Truncate(c) == IF ContentLen(c) > MAX_FRAGMENT_LENGTH THEN "cTrunc" ELSE c

\* extractKeywords: the top terms of each text.
ExtractKeywords(c) ==
  CASE c = "cA" -> {"k1"}
    [] c = "cB" -> {"k1", "k2"}
    [] c = "cC" -> {"k2"}
    [] OTHER -> {"k1"}

\* countTokens, with the chars/4 fallback of the tokenizer.
CountTokens(c) == CeilDiv(ContentLen(c), 4)

IMPORTANCE_WEIGHT(type) ==
  CASE type = "error" -> 900
    [] type = "decision" -> 800
    [] type = "procedure" -> 700
    [] type = "preference" -> 950
    [] type = "relation" -> 600
    [] OTHER -> 500

InferTTL(type, importance) ==
  IF type = "preference" THEN "permanent"
  ELSE IF importance >= 800 THEN "permanent"
  ELSE IF type \in {"error", "procedure"} THEN "hot"
  ELSE IF importance >= 500 THEN "warm"
  ELSE "cold"

\* FragmentFactory.create(params), without the id (allocated by the caller).
FactoryCreate(p) ==
  LET content == Truncate(RedactPII(p.content))
      importance == IF IsSome(p.importance) THEN Get(p.importance)
                    ELSE IMPORTANCE_WEIGHT(p.type)
  IN [content          |-> content,
      topic            |-> p.topic,
      keywords         |-> IF p.keywords # {} THEN p.keywords
                           ELSE ExtractKeywords(content),
      type             |-> p.type,
      importance       |-> importance,
      linked_to        |-> p.linkedTo,
      agent_id         |-> p.agentId,
      is_anchor        |-> p.isAnchor,
      ttl_tier         |-> InferTTL(p.type, importance),
      estimated_tokens |-> CountTokens(content)]

---------------------------------------------------------------------------
(* Row-level security and the content hash *)

\* fragment_isolation_policy
Visible(row, agent) ==
  \/ row.agent_id = agent
  \/ row.agent_id = "default"
  \/ agent \in MaintenanceScopes

VisibleIds(F, agent) == {i \in DOMAIN F : Visible(F[i], agent)}

\* computeContentHash: SHA-256 of the text, injective on the modelled texts.
ContentHash(c) == <<"sha256", c>>

---------------------------------------------------------------------------
(* FragmentStore *)

NewRow(frag, embedded, t) ==
  [content          |-> frag.content,
   topic            |-> frag.topic,
   keywords         |-> frag.keywords,
   type             |-> frag.type,
   importance       |-> IF frag.importance = 0 THEN Scale \div 2 ELSE frag.importance,
   content_hash     |-> ContentHash(frag.content),
   linked_to        |-> frag.linked_to,
   agent_id         |-> frag.agent_id,
   access_count     |-> 0,
   accessed_at      |-> None,
   created_at       |-> t,
   ttl_tier         |-> frag.ttl_tier,
   estimated_tokens |-> frag.estimated_tokens,
   embedding        |-> embedded,
   is_anchor        |-> FALSE]

\* insert(fragment): the duplicate probe runs under the caller's scope, the
\* unique index on content_hash covers every agent's rows.  An upsert that
\* lands on a row hidden from the caller is rejected by the policy.
insertRows(F, frag, id, apiKey, t) ==
  LET hash     == ContentHash(frag.content)
      dup      == {i \in VisibleIds(F, frag.agent_id) : F[i].content_hash = hash}
      conflict == {i \in DOMAIN F : F[i].content_hash = hash}
      embedded == frag.importance > Scale \div 2 /\ apiKey
  IN IF dup # {}
       THEN [F |-> F, id |-> CHOOSE i \in dup : TRUE, inserted |-> FALSE, err |-> FALSE]
     ELSE IF conflict # {}
       THEN [F |-> F, id |-> id, inserted |-> FALSE, err |-> TRUE]
     ELSE [F |-> [i \in DOMAIN F \cup {id} |->
                    IF i = id THEN NewRow(frag, embedded, t) ELSE F[i]],
           id |-> id, inserted |-> TRUE, err |-> FALSE]

\* Variant: an unreachable store not noticed by insert.
insertUnchecked(F, frag, id, apiKey, t, up) == insertRows(F, frag, id, apiKey, t)

\* insert(fragment) with the store reachable or not: with the store
\* unreachable (up = FALSE) the first query throws.
insert(F, frag, id, apiKey, t, up) ==
  IF ~up THEN [F |-> F, id |-> id, inserted |-> FALSE, err |-> TRUE]
  ELSE insertRows(F, frag, id, apiKey, t)

\* archiveVersion(fragment, agentId): one fragment_versions row; a failed
\* write is logged and swallowed (ok = FALSE).
archiveVersion(V, F, id, agent, ok) ==
  IF ok
  THEN Append(V, [fragment_id |-> id,
                  content     |-> F[id].content,
                  topic       |-> F[id].topic,
                  keywords    |-> F[id].keywords,
                  type        |-> F[id].type,
                  importance  |-> F[id].importance,
                  amended_by  |-> agent])
  ELSE V

\* getById(id, agentId): <<id>> when the row is visible, <<>> otherwise.
getById(F, id, agent) == IF id \in VisibleIds(F, agent) THEN Some(id) ELSE None

NoUpdates ==
  [content |-> None, topic |-> None, keywords |-> None, type |-> None,
   importance |-> None, is_anchor |-> None]

ApplyUpdates(row, u, t) ==
  [row EXCEPT
     !.content      = IF IsSome(u.content) THEN Get(u.content) ELSE @,
     !.content_hash = IF IsSome(u.content) THEN ContentHash(Get(u.content)) ELSE @,
     !.embedding    = IF IsSome(u.content) THEN FALSE ELSE @,
     !.topic        = IF IsSome(u.topic) THEN Get(u.topic) ELSE @,
     !.keywords     = IF IsSome(u.keywords) THEN Get(u.keywords) ELSE @,
     !.type         = IF IsSome(u.type) THEN Get(u.type) ELSE @,
     !.importance   = IF IsSome(u.importance) THEN Get(u.importance) ELSE @,
     !.is_anchor    = IF IsSome(u.is_anchor) THEN Get(u.is_anchor) ELSE @,
     !.accessed_at  = Some(t)]

\* update(id, updates, agentId).  kind is "null" (not found), "merged",
\* "same" (nothing to set), "row" (updated) or "error" (the UPDATE violated
\* the unique index through a row hidden from the caller).
update(F, V, id, u, agent, archiveOk, t) ==
  IF getById(F, id, agent) = None
  THEN [F |-> F, V |-> V, kind |-> "null", id |-> id]
  ELSE
    LET V1  == archiveVersion(V, F, id, agent, archiveOk)
        dup == IF IsSome(u.content)
               THEN {i \in VisibleIds(F, agent) :
                       F[i].content_hash = ContentHash(Get(u.content)) /\ i # id}
               ELSE {}
        hidden == IF IsSome(u.content)
                  THEN {i \in DOMAIN F :
                          F[i].content_hash = ContentHash(Get(u.content)) /\ i # id}
                  ELSE {}
    IN IF dup # {}
         THEN [F |-> F, V |-> V1, kind |-> "merged", id |-> CHOOSE i \in dup : TRUE]
       ELSE IF u = NoUpdates
         THEN [F |-> F, V |-> V1, kind |-> "same", id |-> id]
       ELSE IF hidden # {}
         THEN [F |-> F, V |-> V1, kind |-> "error", id |-> id]
       ELSE [F |-> [F EXCEPT ![id] = ApplyUpdates(@, u, t)],
             V |-> V1, kind |-> "row", id |-> id]

\* delete(id, agentId): the class's last definition of delete, which is the
\* one in effect.  Edges and versions of the row go by ON DELETE CASCADE.
delete(F, L, V, id, agent) ==
  IF id \in VisibleIds(F, agent)
  THEN [F |-> [i \in DOMAIN F \ {id} |-> F[i]],
        L |-> {e \in L : e.from # id /\ e.to # id},
        V |-> SelectSeq(V, LAMBDA v : v.fragment_id # id),
        deleted |-> TRUE]
  ELSE [F |-> F, L |-> L, V |-> V, deleted |-> FALSE]

\* Variant: the edge is not written.
createLinkDropped(F, L, from, to, rel, agent) == [F |-> F, L |-> L, err |-> FALSE]

\* createLink(fromId, toId, relationType, agentId): the edge upsert is
\* checked by the foreign keys only; the two linked_to updates run under the
\* caller's scope.
createLink(F, L, from, to, rel, agent) ==
  IF from \notin DOMAIN F \/ to \notin DOMAIN F \/ rel \notin RelationTypes
  THEN [F |-> F, L |-> L, err |-> TRUE]
  ELSE
    LET vis == VisibleIds(F, agent)
        F1  == [i \in DOMAIN F |->
                  IF i = from /\ i \in vis
                  THEN [F[i] EXCEPT !.linked_to = @ \cup {to}] ELSE F[i]]
        F2  == [i \in DOMAIN F1 |->
                  IF i = to /\ i \in vis
                  THEN [F1[i] EXCEPT !.linked_to = @ \cup {from}] ELSE F1[i]]
    IN [F |-> F2,
        L |-> {e \in L : ~(e.from = from /\ e.to = to)}
                \cup {[from |-> from, to |-> to, rel |-> rel]},
        err |-> FALSE]

\* incrementAccess(ids, agentId)
incrementAccess(F, ids, agent, t) ==
  [i \in DOMAIN F |->
     IF i \in ids /\ i \in VisibleIds(F, agent)
     THEN [F[i] EXCEPT !.access_count = @ + 1, !.accessed_at = Some(t)]
     ELSE F[i]]

\* getLinkedIds(fragmentId, agentId)
getLinkedIds(F, id, agent) ==
  IF id \in VisibleIds(F, agent) THEN F[id].linked_to ELSE {}

\* The NOT EXISTS clause of both searches: rows that are the source of a
\* superseded_by edge are left out.
Superseded(L, id) == \E e \in L : e.from = id /\ e.rel = "superseded_by"

\* searchByKeywords(keywords, options): the ids of the matching rows.
searchByKeywords(F, L, keywords, options) ==
  {i \in VisibleIds(F, options.agentId) :
     /\ F[i].keywords \cap keywords # {}
     /\ IsSome(options.type) => F[i].type = Get(options.type)
     /\ IsSome(options.topic) => F[i].topic = Get(options.topic)
     /\ options.minImportance > 0 => F[i].importance >= options.minImportance
     /\ ~Superseded(L, i)}

\* Cosine similarity of two texts, in percent.
Similarity(c1, c2) ==
  IF c1 = c2 THEN 100
  ELSE IF {c1, c2} = {"cA", "cB"} THEN 95
  ELSE IF {c1, c2} = {"cB", "cC"} THEN 75
  ELSE 20

\* searchBySemantic(queryEmbedding, limit, minSimilarity, agentId)
searchBySemantic(F, L, text, minSimilarity, agent) ==
  {i \in VisibleIds(F, agent) :
     /\ F[i].embedding
     /\ Similarity(text, F[i].content) >= minSimilarity
     /\ ~Superseded(L, i)}

---------------------------------------------------------------------------
(* FragmentIndex: the Redis inverted index and the hot cache *)

\* index(fragment)
index(R, id, frag) ==
  [R EXCEPT
     !.kw = [k \in Keywords |-> IF k \in frag.keywords THEN R.kw[k] \cup {id} ELSE R.kw[k]],
     !.tp = [t \in Topics |-> IF t = frag.topic THEN R.tp[t] \cup {id} ELSE R.tp[t]],
     !.ty = [t \in Types |-> IF t = frag.type THEN R.ty[t] \cup {id} ELSE R.ty[t]],
     !.recent = Append(SelectSeq(R.recent, LAMBDA x : x # id), id)]

\* deindex(fragmentId, keywords, topic, type)
deindex(R, id, keywords, topic, type) ==
  [R EXCEPT
     !.kw = [k \in Keywords |-> IF k \in keywords THEN R.kw[k] \ {id} ELSE R.kw[k]],
     !.tp = [t \in Topics |-> IF t = topic THEN R.tp[t] \ {id} ELSE R.tp[t]],
     !.ty = [t \in Types |-> IF t = type THEN R.ty[t] \ {id} ELSE R.ty[t]],
     !.recent = SelectSeq(R.recent, LAMBDA x : x # id),
     !.hot = [i \in DOMAIN R.hot \ {id} |-> R.hot[i]]]

\* FragmentIndex.searchByKeywords(keywords, minResults = 3): intersection of
\* the keyword sets, their union when the intersection is too small.
indexSearchByKeywords(R, keywords) ==
  LET inter == {i \in UNION {R.kw[k] : k \in keywords} :
                  \A k \in keywords : i \in R.kw[k]}
  IN IF Cardinality(inter) < 3 /\ Cardinality(keywords) > 1
     THEN UNION {R.kw[k] : k \in keywords}
     ELSE inter

\* cacheFragment for every fragment of a result list
cacheFragments(R, frags) ==
  [R EXCEPT !.hot =
     [i \in DOMAIN R.hot \cup {f.id : f \in Range(frags)} |->
        IF \E f \in Range(frags) : f.id = i
        THEN LET f == CHOOSE g \in Range(frags) : g.id = i
             IN [content |-> f.content, importance |-> f.importance, sim |-> f.sim]
        ELSE R.hot[i]]]

---------------------------------------------------------------------------
(* FragmentSearch: the three-layer search *)

CHARS_PER_TOKEN == 4

\* _searchL1(query)
searchL1(R, q) ==
  LET sets == (IF q.keywords # {} THEN {indexSearchByKeywords(R, q.keywords)} ELSE {})
              \cup (IF IsSome(q.topic) THEN {R.tp[Get(q.topic)]} ELSE {})
              \cup (IF IsSome(q.type) THEN {R.ty[Get(q.type)]} ELSE {})
  IN IF sets = {} THEN Range(R.recent)
     ELSE {i \in UNION sets : \A s \in sets : i \in s}

\* A candidate is a fragment body with its position class in the candidate
\* list (1 hot cache, 2 keyword rows, 3 rows fetched by id, 4 semantic rows)
\* and the key its own query ordered it by.
Candidate(id, body, cls, key) ==
  [id |-> id, content |-> body.content, importance |-> body.importance,
   sim |-> body.sim, cls |-> cls, key |-> key]

RowBody(F, i, sim) == [content |-> F[i].content, importance |-> F[i].importance, sim |-> sim]

\* _tryHotCache(ids)
tryHotCache(R, ids) ==
  {Candidate(i, R.hot[i], 1, 0) : i \in ids \cap DOMAIN R.hot}

\* _searchL2(query, excludeIds): no agent id is handed to the store, so both
\* queries run under the store's default scope.
searchL2(F, L, q, l1Ids) ==
  LET options == [type |-> q.type, topic |-> q.topic, agentId |-> "default",
                  minImportance |-> IF q.minImportance > 0 THEN q.minImportance
                                    ELSE Scale \div 10]
      results == IF q.keywords # {} THEN searchByKeywords(F, L, q.keywords, options)
                 ELSE {}
      missing == l1Ids \ results
      fetched == missing \cap VisibleIds(F, "default")
  IN {Candidate(i, RowBody(F, i, 0), 2, i) : i \in results}
       \cup {Candidate(i, RowBody(F, i, 0), 3,
                       IF IsSome(F[i].accessed_at) THEN Get(F[i].accessed_at) + 1 ELSE 0)
               : i \in fetched}

\* _searchL3(text)
searchL3(F, L, text) ==
  {Candidate(i, RowBody(F, i, Similarity(text, F[i].content)), 4,
             Similarity(text, F[i].content))
     : i \in searchBySemantic(F, L, text, 30, "default")}

\* The candidate list of search(query), as the set of its entries.
Candidates(F, L, R, q, apiKey) ==
  LET l1Ids == searchL1(R, q)
      c1 == tryHotCache(R, l1Ids)
      c2 == IF Cardinality(c1) < 3 THEN c1 \cup searchL2(F, L, q, l1Ids) ELSE c1
      c3 == IF Cardinality(c2) < 3 /\ IsSome(q.text) /\ apiKey
            THEN c2 \cup searchL3(F, L, Get(q.text)) ELSE c2
  IN c3

\* _deduplicate, first half: one entry per id.  The first entry of an id
\* stays unless a later one carries a greater similarity; the entry keeps
\* the list position of the first.
Unique(cands) ==
  {LET same  == {d \in cands : d.id = i}
       first == CHOOSE d \in same : \A e \in same : d.cls <= e.cls
       best  == CHOOSE d \in same : \A e \in same : d.sim >= e.sim
       kept  == IF best.sim > first.sim THEN best ELSE first
   IN [kept EXCEPT !.cls = first.cls, !.key = first.key] : i \in {c.id : c \in cands}}

\* Array.prototype.sort by importance, descending.  The sort is stable:
\* entries of equal importance stay in list order (cls, then key descending);
\* where no query fixed that order, every order is possible.
StableOrders(U) ==
  LET Before(a, b) ==
        \/ a.importance > b.importance
        \/ /\ a.importance = b.importance
           /\ \/ a.cls < b.cls
              \/ a.cls = b.cls /\ a.key >= b.key
  IN {s \in SeqsOf(U) : \A i \in 1..(Len(s) - 1) : Before(s[i], s[i + 1])}

\* _deduplicate(fragments): the possible result lists.
deduplicate(cands) == StableOrders(Unique(cands))

\* _trimToTokenBudget(fragments, tokenBudget): the longest prefix whose
\* summed content length fits tokenBudget * CHARS_PER_TOKEN characters.
RECURSIVE TrimFrom(_, _, _)
TrimFrom(s, usedChars, charBudget) ==
  IF s = <<>> THEN <<>>
  ELSE LET cost == ContentLen(Head(s).content)
       IN IF usedChars + cost > charBudget THEN <<>>
          ELSE <<Head(s)>> \o TrimFrom(Tail(s), usedChars + cost, charBudget)

trimToTokenBudget(s, tokenBudget) == TrimFrom(s, 0, tokenBudget * CHARS_PER_TOKEN)

\* _estimateTokens(fragments)
estimateTokens(s) ==
  CeilDiv(SeqSum([i \in 1..Len(s) |-> ContentLen(s[i].content)]), CHARS_PER_TOKEN)

DEFAULT_TOKEN_BUDGET == 1000

\* search(query), given the order the ranking produced: the returned
\* fragments and the state after incrementAccess and _cacheFragments.
search(F, R, q, ranked, t) ==
  LET budget  == IF q.tokenBudget > 0 THEN q.tokenBudget ELSE DEFAULT_TOKEN_BUDGET
      trimmed == trimToTokenBudget(ranked, budget)
      ids     == {f.id : f \in Range(trimmed)}
  IN [fragments   |-> trimmed,
      totalTokens |-> estimateTokens(trimmed),
      F |-> incrementAccess(F, ids, "default", t),
      R |-> cacheFragments(R, trimmed)]

---------------------------------------------------------------------------
(* State *)

Redis == [kw |-> kwIdx, tp |-> tpIdx, ty |-> tyIdx, recent |-> recent, hot |-> hot]

Init ==
  /\ fragments = <<>>
  /\ links = {}
  /\ versions = <<>>
  /\ kwIdx = [k \in Keywords |-> {}]
  /\ tpIdx = [t \in Topics |-> {}]
  /\ tyIdx = [t \in Types |-> {}]
  /\ recent = <<>>
  /\ hot = <<>>
  /\ evalQueue = <<>>
  /\ pending = <<>>
  /\ lastCheckAt = None
  /\ nextId = 1
  /\ now = 0
  /\ ops = 0
  /\ OPENAI_API_KEY \in BOOLEAN
  /\ cacheWrites = <<>>
  /\ wm = [s \in Sessions |-> <<>>]
  /\ activity = [s \in Sessions |-> [toolCalls |-> 0, reflected |-> FALSE]]
  /\ evaluator = [running |-> TRUE, pc |-> "idle", job |-> None, more |-> <<>>]
  /\ poolPrimary = "open"
  /\ shutdown = "none"
  /\ calls = [c \in Clients |-> Idle]
  /\ conns = [k \in Conns |-> Fresh]
  /\ streamableSessions = Sessions
  /\ nliModel = [tokenizer |-> FALSE, model |-> FALSE, loading |-> None, failed |-> FALSE,
            loads |-> <<>>]
  /\ last = [op |-> "init"]

SetRedis(R) ==
  /\ kwIdx' = R.kw
  /\ tpIdx' = R.tp
  /\ tyIdx' = R.ty
  /\ recent' = R.recent
  /\ hot' = R.hot

---------------------------------------------------------------------------
(* MemoryManager.remember *)

\* createLink(id, linkId, "related", agentId).catch(() => {}) for every
\* linkId; links to different targets do not interfere.
RECURSIVE CreateLinksFrom(_, _, _, _, _, _)
CreateLinksFrom(F, L, from, tos, rel, agent) ==
  IF tos = {} THEN [F |-> F, L |-> L]
  ELSE LET to == CHOOSE x \in tos : TRUE
           r  == createLink(F, L, from, to, rel, agent)
       IN CreateLinksFrom(r.F, r.L, from, tos \ {to}, rel, agent)

\* newFragment.content.includes("resolved"): none of the modelled texts does.
MentionsResolved(c) == FALSE

\* The relation _autoLinkOnRemember picks for one similar fragment.  The new
\* fragment object carries no created_at, so its date is the current time,
\* later than any stored row's.
AutoLinkRelation(newType, newContent, existingType, similarity) ==
  IF newType = existingType /\ similarity > 85 THEN "superseded_by"
  ELSE IF newType = "error" /\ existingType = "error" /\ MentionsResolved(newContent)
    THEN "resolved_by"
  ELSE "related"

RECURSIVE AutoLinkAll(_, _, _, _, _, _)
AutoLinkAll(F, L, cands, id, frag, agent) ==
  IF cands = {} THEN [F |-> F, L |-> L]
  ELSE LET x   == CHOOSE y \in cands : TRUE
           rel == AutoLinkRelation(frag.type, frag.content, F[x].type,
                                   Similarity(F[id].content, F[x].content))
           r   == createLink(F, L, x, id, rel, agent)
       IN AutoLinkAll(r.F, r.L, cands \ {x}, id, frag, agent)

\* _autoLinkOnRemember(newFragment, agentId).  The query's LIMIT 3 is never
\* reached with MaxFrags rows.
autoLinkOnRemember(F, L, id, frag, agent) ==
  IF ~(id \in VisibleIds(F, agent) /\ F[id].embedding) THEN [F |-> F, L |-> L]
  ELSE LET cands == {i \in VisibleIds(F, agent) :
                       /\ i # id
                       /\ F[i].topic = frag.topic
                       /\ F[i].embedding
                       /\ Similarity(F[id].content, F[i].content) > 70}
       IN AutoLinkAll(F, L, cands, id, frag, agent)

\* The query of _detectConflicts(content, topic, newId)
ConflictQuery(content, topic) ==
  [keywords |-> {}, topic |-> Some(topic), type |-> None, text |-> Some(content),
   tokenBudget |-> 500, minImportance |-> 0]

EVAL_EXCLUDE_TYPES == {"fact", "procedure", "error"}

Body(c) == [id |-> c.id, content |-> c.content, importance |-> c.importance, sim |-> c.sim]

Bodies(s) == [i \in 1..Len(s) |-> Body(s[i])]

\* The steps of remember after the store insert, one of which may fail.
Faults == {"none", "index", "links", "conflicts", "autolink", "enqueue"}

\* create() rejects an empty content.
Valid(p) == ContentLen(p.content) > 0

\* Whether pushToQueue lets a failed push reach its caller.
pushToQueueThrows == FALSE

\* pushToQueue(name, job): the job joins the queue unless the push fails.
pushToQueue(Q, job, ok) == IF ok THEN Append(Q, job) ELSE Q

\* Variant: the .catch on the caller-supplied links dropped.
RememberThrowsOnLinks(fail) == fail = "links"

\* Whether the failure of a step after the insert reaches remember's caller:
\* index() catches its pipeline's error, createLink and _autoLinkOnRemember
\* are called with .catch, _detectConflicts wraps its search in try/catch;
\* only pushToQueue is awaited bare.
RememberThrows(fail) == fail = "enqueue" /\ pushToQueueThrows

WM_MAX_TOKENS == 500

\* The counting loop of _enforceWmBudget: from index i (1-based here), while
\* the total is over the ceiling, an entry of importance > 0.8 is skipped,
\* any other is subtracted and counted.
RECURSIVE WmRemoved(_, _, _, _)
WmRemoved(parsed, i, totalToks, removed) ==
  IF i > Len(parsed) \/ totalToks <= WM_MAX_TOKENS THEN removed
  ELSE IF parsed[i].importance > 800
       THEN WmRemoved(parsed, i + 1, totalToks, removed)
       ELSE WmRemoved(parsed, i + 1, totalToks - parsed[i].estimated_tokens,
                      removed + 1)

\* parsed.filter((p, i) => !(i < removed && importance <= 0.8)), i 0-based.
RECURSIVE WmRemaining(_, _, _)
WmRemaining(parsed, i, removed) ==
  IF i > Len(parsed) THEN <<>>
  ELSE (IF i - 1 < removed /\ parsed[i].importance <= 800 THEN <<>>
        ELSE <<parsed[i]>>) \o WmRemaining(parsed, i + 1, removed)

\* _enforceWmBudget(key): the list the key holds afterwards.
enforceWmBudget(parsed) ==
  LET totalToks == SeqSum([i \in 1..Len(parsed) |-> parsed[i].estimated_tokens])
      removed   == WmRemoved(parsed, 1, totalToks, 0)
  IN IF totalToks <= WM_MAX_TOKENS \/ removed = 0 THEN parsed
     ELSE WmRemaining(parsed, 1, removed)

\* addToWorkingMemory(sessionId, fragment): rpush, then _enforceWmBudget.
addToWorkingMemory(W, sid, id, frag) ==
  [W EXCEPT ![sid] =
     enforceWmBudget(
       Append(@, [id |-> id, content |-> frag.content,
                  type |-> frag.type, topic |-> frag.topic,
                  importance |-> IF frag.importance = 0 THEN 500
                                 ELSE frag.importance,
                  estimated_tokens |-> IF frag.estimated_tokens = 0
                                       THEN CountTokens(frag.content)
                                       ELSE frag.estimated_tokens]))]

\* Ids of working-memory entries: never stored, kept apart from row ids.
WmId(W, sid) == 0 - (Len(W[sid]) + 1)

\* The steps of remember after store.insert returned an id: index, the
\* caller's links, conflict detection, auto-linking, the evaluation job.
RememberRest(p, frag, ins, up, fail) ==
  LET id == ins.id
      R1 == IF fail = "index" THEN Redis ELSE index(Redis, id, frag)
      lk == IF fail = "links" THEN [F |-> ins.F, L |-> links]
            ELSE CreateLinksFrom(ins.F, links, id, frag.linked_to, "related",
                                 p.agentId)
      q  == ConflictQuery(frag.content, frag.topic)
  IN \E ranked \in deduplicate(Candidates(lk.F, lk.L, R1, q, OPENAI_API_KEY)) :
       LET sr == IF fail = "conflicts"
                 THEN [fragments |-> <<>>, totalTokens |-> 0, F |-> lk.F, R |-> R1]
                 ELSE search(lk.F, R1, q, ranked, now)
           conflicts == {f.id : f \in {g \in Range(sr.fragments) :
                                         g.id # id /\ g.sim > 80}}
           al == IF fail = "autolink" THEN [F |-> sr.F, L |-> lk.L]
                 ELSE autoLinkOnRemember(sr.F, lk.L, id, frag, p.agentId)
       IN /\ fragments' = al.F
          /\ links' = al.L
          /\ SetRedis(sr.R)
          /\ evalQueue' = IF frag.type \in EVAL_EXCLUDE_TYPES THEN evalQueue
                          ELSE pushToQueue(evalQueue,
                                 [fragmentId |-> id, agentId |-> p.agentId,
                                  type |-> frag.type, content |-> frag.content],
                                 fail # "enqueue")
          /\ nextId' = IF ins.inserted THEN nextId + 1 ELSE nextId
          /\ UNCHANGED wm
          /\ last' = [op |-> "remember", arg |-> p,
                      ret |-> IF RememberThrows(fail)
                              THEN [success |-> FALSE]
                              ELSE [success |-> TRUE, id |-> id,
                                    keywords |-> frag.keywords,
                                    ttl_tier |-> frag.ttl_tier,
                                    scope |-> "permanent",
                                    conflicts |-> conflicts],
                      rowsBefore |-> Cardinality(DOMAIN fragments),
                      inserted |-> ins.inserted,
                      up |-> up, fail |-> fail]

\* remember(params) with the store reachable or not (up) and at most one
\* failing step after the insert (fail).
Remember(p, up, fail) ==
  LET frag == FactoryCreate(p)
      ins  == insert(fragments, frag, nextId, OPENAI_API_KEY, now, up)
      toWm == p.scope = "session" /\ IsSome(p.sessionId)
  IN
  /\ (Valid(p) /\ ~toWm /\ ins.inserted) => nextId <= MaxFrags
  /\ ops' = ops + 1
  /\ UNCHANGED <<versions, pending, lastCheckAt, now, OPENAI_API_KEY, cacheWrites,
                 activity, server>>
  /\ IF ~Valid(p)
     THEN /\ last' = [op |-> "remember", arg |-> p, ret |-> [success |-> FALSE],
                      up |-> up, fail |-> fail]
          /\ UNCHANGED <<fragments, links, kwIdx, tpIdx, tyIdx, recent, hot,
                         evalQueue, nextId, wm>>
     ELSE IF toWm
     THEN /\ wm' = addToWorkingMemory(wm, Get(p.sessionId),
                                      WmId(wm, Get(p.sessionId)), frag)
          /\ last' = [op |-> "remember", arg |-> p,
                      ret |-> [success |-> TRUE,
                               id |-> WmId(wm, Get(p.sessionId)),
                               keywords |-> frag.keywords,
                               ttl_tier |-> "session",
                               scope |-> "session",
                               conflicts |-> {}],
                      up |-> up, fail |-> fail]
          /\ UNCHANGED <<fragments, links, kwIdx, tpIdx, tyIdx, recent, hot,
                         evalQueue, nextId>>
     ELSE IF ins.err
     THEN /\ last' = [op |-> "remember", arg |-> p, ret |-> [success |-> FALSE],
                      up |-> up, fail |-> fail]
          /\ UNCHANGED <<fragments, links, kwIdx, tpIdx, tyIdx, recent, hot,
                         evalQueue, nextId, wm>>
     ELSE RememberRest(p, frag, ins, up, fail)

\* The INSERT ... ON CONFLICT (content_hash) DO UPDATE of insert on the rows
\* as they are when it runs: a new row, or the update of the row that holds
\* the hash, which the policy rejects when that row is hidden from the caller.
upsert(F, frag, id, apiKey, t) ==
  LET hash     == ContentHash(frag.content)
      conflict == {i \in DOMAIN F : F[i].content_hash = hash}
      embedded == frag.importance > Scale \div 2 /\ apiKey
      excluded == IF frag.importance = 0 THEN Scale \div 2 ELSE frag.importance
  IN IF conflict = {}
       THEN [F |-> [i \in DOMAIN F \cup {id} |->
                      IF i = id THEN NewRow(frag, embedded, t) ELSE F[i]],
             id |-> id, inserted |-> TRUE, err |-> FALSE]
     ELSE IF conflict \subseteq VisibleIds(F, frag.agent_id)
       THEN LET i == CHOOSE j \in conflict : TRUE
            IN [F |-> [F EXCEPT ![i].importance = IF excluded > @ THEN excluded ELSE @,
                                ![i].accessed_at = Some(t)],
                id |-> i, inserted |-> FALSE, err |-> FALSE]
     ELSE [F |-> F, id |-> id, inserted |-> FALSE, err |-> TRUE]

\* remember(params) as its awaits split it, for calls of two clients that
\* interleave.  First create() and the duplicate probe of insert.
RememberProbe(c, p) ==
  /\ calls[c].pc \in {"idle", "done"}
  /\ Valid(p)
  /\ p.scope = "permanent"
  /\ LET frag == FactoryCreate(p)
         dup  == {i \in VisibleIds(fragments, frag.agent_id) :
                    fragments[i].content_hash = ContentHash(frag.content)}
     IN calls' = [calls EXCEPT ![c] =
                    [pc |-> "probed", arg |-> p,
                     dup |-> IF dup # {} THEN Some(CHOOSE i \in dup : TRUE) ELSE None]]
  /\ UNCHANGED <<fragments, links, versions, kwIdx, tpIdx, tyIdx, recent, hot,
                 evalQueue, pending, lastCheckAt, nextId, now, ops, OPENAI_API_KEY,
                 cacheWrites, wm, activity, evaluator, poolPrimary, conns, streamableSessions, nliModel, shutdown, last>>

\* Then the INSERT of insert, unless the probe found the row, and the rest
\* of remember.
RememberInsert(c) ==
  /\ calls[c].pc = "probed"
  /\ ops' = ops + 1
  /\ UNCHANGED <<versions, pending, lastCheckAt, now, OPENAI_API_KEY, cacheWrites,
                 activity, evaluator, poolPrimary, conns, streamableSessions, nliModel, shutdown>>
  /\ LET p    == calls[c].arg
         frag == FactoryCreate(p)
     IN \E ins \in {IF IsSome(calls[c].dup)
                     THEN [F |-> fragments, id |-> Get(calls[c].dup),
                           inserted |-> FALSE, err |-> FALSE]
                     ELSE upsert(fragments, frag, nextId, OPENAI_API_KEY, now)} :
          /\ ins.inserted => nextId <= MaxFrags
          /\ calls' = [calls EXCEPT ![c] =
                         [pc |-> "done", arg |-> p,
                          ret |-> IF ins.err THEN None ELSE Some(ins.id)]]
          /\ IF ins.err
             THEN /\ last' = [op |-> "remember", arg |-> p, ret |-> [success |-> FALSE],
                              up |-> TRUE, fail |-> "none"]
                  /\ UNCHANGED <<fragments, links, kwIdx, tpIdx, tyIdx, recent, hot,
                                 evalQueue, nextId, wm>>
             ELSE RememberRest(p, frag, ins, TRUE, "none")

RememberPreset(content, topic, type, importance, agent, linkedTo, isAnchor) ==
  [content |-> content, topic |-> topic, type |-> type, keywords |-> {},
   importance |-> importance, linkedTo |-> linkedTo, isAnchor |-> isAnchor,
   agentId |-> agent, scope |-> "permanent", sessionId |-> None]

Callers == {"default", "a1"}

\* The remember calls the model makes.
RememberParams ==
  {RememberPreset("cA", "t1", "fact", None, a, {}, FALSE) : a \in Callers}
  \cup {RememberPreset("cA", "t1", "fact", Some(900), a, {}, FALSE) : a \in Callers}
  \cup {RememberPreset("cB", "t1", "fact", Some(900), a, {}, FALSE) : a \in Callers}
  \cup {RememberPreset("cB", "t2", "fact", Some(50), a, {}, FALSE) : a \in Callers}
  \cup {RememberPreset("cC", "t2", "decision", None, a, {}, b) : a \in Callers, b \in BOOLEAN}
  \cup {RememberPreset("cP", "t1", "error", Some(600), a, {}, FALSE) : a \in Callers}
  \cup {RememberPreset("cB", "t1", "fact", None, a, {i}, FALSE) :
          a \in Callers, i \in 1..(nextId - 1)}

---------------------------------------------------------------------------
(* MemoryManager.recall *)

RelationPriority(rel) ==
  CASE rel = "resolved_by" -> 1
    [] rel = "caused_by" -> 2
    [] OTHER -> 3

\* getLinkedFragments(fromIds, relationType, agentId): the rows one hop
\* away, as candidates ordered by relation priority.  At most
\* MEMORY_CONFIG.linkedFragmentLimit (10) rows come back; the model's stores
\* stay below that.
getLinkedFragments(F, L, fromIds, relationType, agent) ==
  LET rels  == IF IsSome(relationType) /\ Get(relationType) \in RelationTypes
               THEN {Get(relationType)}
               ELSE {"caused_by", "resolved_by", "related"}
      edges == {e \in L : e.from \in fromIds /\ e.rel \in rels
                          /\ e.to \in VisibleIds(F, agent)}
      prio(i) == CHOOSE n \in 1..3 :
                   /\ \E e \in edges : e.to = i /\ RelationPriority(e.rel) = n
                   /\ \A e \in edges : e.to = i => RelationPriority(e.rel) >= n
  IN {Candidate(i, RowBody(F, i, 0), 2, 3 - prio(i)) : i \in {e.to : e \in edges}}

\* The fragments of a search result as entries of the list recall sorts.
Placed(s) ==
  {[s[i] EXCEPT !.cls = 1, !.key = Len(s) - i] : i \in 1..Len(s)}

\* recall(params).  search() starts _cacheFragments without awaiting it:
\* with deferred the call returns before the hot-cache writes have landed.
RecallStep(p, deferred) ==
  LET q == [keywords |-> p.keywords, topic |-> p.topic, type |-> p.type,
            text |-> p.text,
            tokenBudget |-> IF p.tokenBudget > 0 THEN p.tokenBudget
                            ELSE DEFAULT_TOKEN_BUDGET,
            minImportance |-> p.minImportance]
  IN
  \E ranked \in deduplicate(Candidates(fragments, links, Redis, q, OPENAI_API_KEY)) :
    LET sr      == search(fragments, Redis, q, ranked, now)
        ids     == {f.id : f \in Range(sr.fragments)}
        linked  == IF p.includeLinks /\ ids # {}
                   THEN {c \in getLinkedFragments(sr.F, links, ids,
                                                  p.linkRelationType, p.agentId) :
                           c.id \notin ids}
                   ELSE {}
    IN \E sorted \in StableOrders(Placed(sr.fragments) \cup linked) :
         LET kept == IF IsSome(p.threshold)
                     THEN SelectSeq(sorted,
                                    LAMBDA f : f.sim = 0 \/ f.sim >= Get(p.threshold))
                     ELSE sorted
         IN /\ fragments' = sr.F
            /\ IF deferred
               THEN /\ cacheWrites' = cacheWrites \o sr.fragments
                    /\ UNCHANGED <<kwIdx, tpIdx, tyIdx, recent, hot>>
               ELSE /\ SetRedis(sr.R)
                    /\ UNCHANGED cacheWrites
            /\ ops' = ops + 1
            /\ last' = [op |-> "recall", arg |-> p,
                        ret |-> [fragments |-> Bodies(kept),
                                 totalTokens |-> sr.totalTokens,
                                 count |-> Len(kept)]]
            /\ UNCHANGED <<links, versions, evalQueue, pending, lastCheckAt, nextId, now,
                         OPENAI_API_KEY, wm, activity, server>>

Recall(p) == RecallStep(p, FALSE)

\* The hot-cache writes of earlier searches land.
CacheWritesLand ==
  /\ cacheWrites # <<>>
  /\ hot' = cacheFragments(Redis, cacheWrites).hot
  /\ cacheWrites' = <<>>
  /\ UNCHANGED <<fragments, links, versions, kwIdx, tpIdx, tyIdx, recent, evalQueue,
                 pending, lastCheckAt, nextId, now, ops, OPENAI_API_KEY, wm, activity, last, server>>

RecallPreset(keywords, topic, tokenBudget, includeLinks, agent) ==
  [keywords |-> keywords, topic |-> topic, type |-> None, text |-> None,
   tokenBudget |-> tokenBudget, minImportance |-> 0, includeLinks |-> includeLinks,
   linkRelationType |-> None, threshold |-> None, agentId |-> agent]

\* The recall calls the model makes.
RecallParams ==
  {RecallPreset(k, None, b, TRUE, a) :
     k \in {{"k1"}, {"k2"}}, b \in {0, 3}, a \in Agents}
  \cup {RecallPreset({"k1"}, None, 2, l, "default") : l \in BOOLEAN}
  \cup {RecallPreset({}, Some("t1"), 3, l, a) : l \in BOOLEAN, a \in Callers}

---------------------------------------------------------------------------
(* MemoryManager.forget *)

\* Variant: forget without the permanent-tier test.
ProtectedNever(F, id, force) == FALSE

\* frag.ttl_tier === "permanent" && !params.force
Protected(F, id, force) == F[id].ttl_tier = "permanent" /\ ~force

\* deindex + delete of one fragment the caller can see
ForgetOne(F, L, V, R, id, agent) ==
  LET d == delete(F, L, V, id, agent)
  IN [F |-> d.F, L |-> d.L, V |-> d.V,
      R |-> deindex(R, id, F[id].keywords, F[id].topic, F[id].type),
      deleted |-> IF d.deleted THEN 1 ELSE 0, protected |-> 0]

RECURSIVE ForgetTopic(_, _, _, _, _, _, _)
ForgetTopic(F, L, V, R, ids, force, agent) ==
  IF ids = {} THEN [F |-> F, L |-> L, V |-> V, R |-> R, deleted |-> 0, protected |-> 0]
  ELSE
    LET id   == CHOOSE x \in ids : TRUE
        rest == ids \ {id}
    IN IF getById(F, id, agent) = None
         THEN ForgetTopic(F, L, V, R, rest, force, agent)
       ELSE IF Protected(F, id, force)
         THEN LET r == ForgetTopic(F, L, V, R, rest, force, agent)
              IN [r EXCEPT !.protected = @ + 1]
       ELSE LET one == ForgetOne(F, L, V, R, id, agent)
                r   == ForgetTopic(one.F, one.L, one.V, one.R, rest, force, agent)
            IN [r EXCEPT !.deleted = @ + one.deleted]

Forget(p) ==
  /\ ops' = ops + 1
  /\ UNCHANGED <<evalQueue, pending, lastCheckAt, nextId, now, OPENAI_API_KEY, cacheWrites, wm, activity, server>>
  /\ IF IsSome(p.id) /\ getById(fragments, Get(p.id), p.agentId) = None
     THEN /\ last' = [op |-> "forget", arg |-> p,
                      ret |-> [deleted |-> 0, protected |-> 0,
                               error |-> "Fragment not found"]]
          /\ UNCHANGED <<fragments, links, versions, kwIdx, tpIdx, tyIdx, recent, hot>>
     ELSE IF IsSome(p.id) /\ Protected(fragments, Get(p.id), p.force)
     THEN /\ last' = [op |-> "forget", arg |-> p,
                      ret |-> [deleted |-> 0, protected |-> 1, error |-> ""]]
          /\ UNCHANGED <<fragments, links, versions, kwIdx, tpIdx, tyIdx, recent, hot>>
     ELSE
       LET s0 == [F |-> fragments, L |-> links, V |-> versions, R |-> Redis,
                  deleted |-> 0, protected |-> 0]
           s1 == IF IsSome(p.id)
                 THEN ForgetOne(fragments, links, versions, Redis, Get(p.id), p.agentId)
                 ELSE s0
           s2 == IF IsSome(p.topic)
                 THEN ForgetTopic(s1.F, s1.L, s1.V, s1.R, s1.R.tp[Get(p.topic)],
                                  p.force, p.agentId)
                 ELSE [s1 EXCEPT !.deleted = 0]
       IN /\ fragments' = s2.F
          /\ links' = s2.L
          /\ versions' = s2.V
          /\ SetRedis(s2.R)
          /\ last' = [op |-> "forget", arg |-> p,
                      ret |-> [deleted |-> s1.deleted + s2.deleted,
                               protected |-> s2.protected, error |-> ""]]

\* The forget calls the model makes.
ForgetParams ==
  {[id |-> Some(i), topic |-> None, force |-> f, agentId |-> a] :
     i \in 1..(nextId - 1), f \in BOOLEAN, a \in Callers}
  \cup {[id |-> None, topic |-> Some("t1"), force |-> FALSE, agentId |-> "default"]}

---------------------------------------------------------------------------
(* MemoryManager.link *)

Link(p, archiveOk) ==
  /\ ops' = ops + 1
  /\ UNCHANGED <<kwIdx, tpIdx, tyIdx, recent, hot, evalQueue, pending, lastCheckAt,
                 nextId, now, OPENAI_API_KEY, cacheWrites, wm, activity, server>>
  /\ IF getById(fragments, p.fromId, p.agentId) = None
        \/ getById(fragments, p.toId, p.agentId) = None
     THEN /\ last' = [op |-> "link", arg |-> p, ret |-> [linked |-> FALSE]]
          /\ UNCHANGED <<fragments, links, versions>>
     ELSE
       LET lk == createLink(fragments, links, p.fromId, p.toId, p.relationType, p.agentId)
           up == IF p.relationType = "resolved_by"
                    /\ fragments[p.toId].type = "error"
                    /\ fragments[p.toId].importance > Scale \div 2
                 THEN update(lk.F, versions, p.toId,
                             [NoUpdates EXCEPT !.importance = Some(Scale \div 2)],
                             p.agentId, archiveOk, now)
                 ELSE [F |-> lk.F, V |-> versions]
       IN /\ fragments' = up.F
          /\ links' = lk.L
          /\ versions' = up.V
          /\ last' = [op |-> "link", arg |-> p,
                      ret |-> [linked |-> TRUE, relationType |-> p.relationType]]

\* The link calls the model makes.
LinkParams ==
  {[fromId |-> i, toId |-> j, relationType |-> r, agentId |-> a] :
     i \in 1..(nextId - 1), j \in 1..(nextId - 1),
     r \in {"related", "resolved_by"}, a \in Callers}

---------------------------------------------------------------------------
(* MemoryManager.amend *)

AmendUpdates(p) ==
  [content    |-> IF IsSome(p.content) THEN Some(Truncate(Get(p.content))) ELSE None,
   topic      |-> p.topic,
   keywords   |-> p.keywords,
   type       |-> p.type,
   importance |-> p.importance,
   is_anchor  |-> p.isAnchor]

Amend(p, archiveOk) ==
  /\ ops' = ops + 1
  /\ UNCHANGED <<evalQueue, pending, lastCheckAt, nextId, now, OPENAI_API_KEY, cacheWrites, wm, activity, server>>
  /\ IF getById(fragments, p.id, p.agentId) = None
     THEN /\ last' = [op |-> "amend", arg |-> p,
                      ret |-> [updated |-> FALSE, merged |-> FALSE,
                               error |-> "Fragment not found"],
                      versionsBefore |-> Len(versions)]
          /\ UNCHANGED <<fragments, links, versions, kwIdx, tpIdx, tyIdx, recent, hot>>
     ELSE
       LET existing == fragments[p.id]
           result   == update(fragments, versions, p.id, AmendUpdates(p), p.agentId,
                              archiveOk, now)
       IN IF result.kind \in {"merged", "error"}
          THEN /\ fragments' = result.F
               /\ versions' = result.V
               /\ last' = [op |-> "amend", arg |-> p,
                           ret |-> IF result.kind = "merged"
                                   THEN [updated |-> FALSE, merged |-> TRUE,
                                         existingId |-> result.id]
                                   ELSE [updated |-> FALSE, merged |-> FALSE,
                                         error |-> "duplicate key"],
                           versionsBefore |-> Len(versions)]
               /\ UNCHANGED <<links, kwIdx, tpIdx, tyIdx, recent, hot>>
          ELSE
            LET lk  == IF p.supersedes
                       THEN createLink(result.F, links, p.id, p.id, "related", p.agentId)
                       ELSE [F |-> result.F, L |-> links]
                low == IF p.supersedes
                       THEN update(lk.F, result.V, p.id,
                                   [NoUpdates EXCEPT !.importance = Some(300)],
                                   p.agentId, archiveOk, now)
                       ELSE [F |-> lk.F, V |-> result.V]
                R1  == deindex(Redis, p.id, existing.keywords, existing.topic,
                               existing.type)
            IN /\ fragments' = low.F
               /\ links' = lk.L
               /\ versions' = low.V
               /\ SetRedis(index(R1, p.id, result.F[p.id]))
               /\ last' = [op |-> "amend", arg |-> p,
                           ret |-> [updated |-> TRUE, merged |-> FALSE, id |-> p.id],
                           versionsBefore |-> Len(versions)]

AmendPreset(id, agent) ==
  [id |-> id, content |-> None, topic |-> None, keywords |-> None, type |-> None,
   importance |-> None, isAnchor |-> None, supersedes |-> FALSE, agentId |-> agent]

\* The amend calls the model makes.
AmendParams ==
  UNION {{[AmendPreset(i, a) EXCEPT !.content = Some("cB")],
          [AmendPreset(i, a) EXCEPT !.content = Some("cP")],
          [AmendPreset(i, a) EXCEPT !.isAnchor = Some(TRUE), !.importance = Some(200)],
          [AmendPreset(i, a) EXCEPT !.isAnchor = Some(TRUE)],
          [AmendPreset(i, a) EXCEPT !.keywords = Some({"k2"}), !.supersedes = TRUE]}
         : i \in 1..(nextId - 1), a \in Callers}

\* amend(params) as its awaits split it, so that the calls of two clients
\* interleave.  First the reads: amend's getById and the getById of
\* store.update, which keeps the row it saw as `existing`.
AmendBegin(c, p) ==
  /\ calls[c] = Idle
  /\ ops' = ops + 1
  /\ IF getById(fragments, p.id, p.agentId) = None
     THEN /\ last' = [op |-> "amend", arg |-> p,
                      ret |-> [updated |-> FALSE, merged |-> FALSE,
                               error |-> "Fragment not found"],
                      versionsBefore |-> Len(versions)]
          /\ UNCHANGED calls
     ELSE /\ calls' = [calls EXCEPT ![c] = [pc |-> "read", arg |-> p,
                                            existing |-> fragments[p.id]]]
          /\ UNCHANGED last
  /\ UNCHANGED <<fragments, links, versions, kwIdx, tpIdx, tyIdx, recent, hot,
                 evalQueue, pending, lastCheckAt, nextId, now, OPENAI_API_KEY,
                 cacheWrites, wm, activity, evaluator, poolPrimary, conns, streamableSessions, nliModel, shutdown>>

\* archiveVersion(existing, agentId) of store.update: the row as it was read.
AmendArchive(c) ==
  /\ calls[c].pc = "read"
  /\ LET p == calls[c].arg
     IN versions' = archiveVersion(versions, [i \in {p.id} |-> calls[c].existing],
                                   p.id, p.agentId, TRUE)
  /\ calls' = [calls EXCEPT ![c].pc = "archived"]
  /\ UNCHANGED <<fragments, links, kwIdx, tpIdx, tyIdx, recent, hot, evalQueue,
                 pending, lastCheckAt, nextId, now, ops, OPENAI_API_KEY, cacheWrites,
                 wm, activity, evaluator, poolPrimary, conns, streamableSessions, nliModel, shutdown, last>>

\* The rest of store.update (the duplicate probe and the UPDATE, on the row
\* as it is by now) and the rest of amend.
AmendWrite(c) ==
  /\ calls[c].pc = "archived"
  /\ calls' = [calls EXCEPT ![c] = Idle]
  /\ LET p        == calls[c].arg
         existing == calls[c].existing
     IN \E result \in {update(fragments, versions, p.id, AmendUpdates(p), p.agentId,
                              FALSE, now)} :
          IF result.kind \in {"null", "merged", "error"}
          THEN /\ last' = [op |-> "amend", arg |-> p,
                           ret |-> IF result.kind = "merged"
                                   THEN [updated |-> FALSE, merged |-> TRUE,
                                         existingId |-> result.id]
                                   ELSE [updated |-> FALSE, merged |-> FALSE,
                                         error |-> "Update failed"],
                           versionsBefore |-> Len(versions)]
               /\ UNCHANGED <<fragments, links, versions, kwIdx, tpIdx, tyIdx, recent,
                              hot>>
          ELSE
            \E lk \in {IF p.supersedes
                       THEN createLink(result.F, links, p.id, p.id, "related", p.agentId)
                       ELSE [F |-> result.F, L |-> links]} :
            \E low \in {IF p.supersedes
                        THEN update(lk.F, versions, p.id,
                                    [NoUpdates EXCEPT !.importance = Some(300)],
                                    p.agentId, TRUE, now)
                        ELSE [F |-> lk.F, V |-> versions]} :
              /\ fragments' = low.F
              /\ links' = lk.L
              /\ versions' = low.V
              /\ SetRedis(index(deindex(Redis, p.id, existing.keywords, existing.topic,
                                        existing.type),
                                p.id, result.F[p.id]))
              /\ last' = [op |-> "amend", arg |-> p,
                          ret |-> [updated |-> TRUE, merged |-> FALSE, id |-> p.id],
                          versionsBefore |-> Len(versions)]
  /\ UNCHANGED <<evalQueue, pending, lastCheckAt, nextId, now, ops, OPENAI_API_KEY,
                 cacheWrites, wm, activity, evaluator, poolPrimary, conns, streamableSessions, nliModel, shutdown>>

\* The amend calls of the overlapping clients.
OverlappingAmendParams ==
  UNION {{[AmendPreset(i, "default") EXCEPT !.content = Some("cB")],
          [AmendPreset(i, "default") EXCEPT !.content = Some("cC")],
          [AmendPreset(i, "default") EXCEPT !.importance = Some(200)]}
         : i \in 1..(nextId - 1)}

---------------------------------------------------------------------------
(* FragmentStore maintenance queries, all run under the "system" scope *)

\* transitionTTL(): three promotions to permanent, then warm -> cold.
transitionTTL(F, t) ==
  [i \in DOMAIN F |->
     IF F[i].ttl_tier # "permanent"
        /\ (\/ F[i].type = "preference"
            \/ Cardinality(F[i].linked_to) >= 5
            \/ F[i].importance >= 800)
     THEN [F[i] EXCEPT !.ttl_tier = "permanent"]
     ELSE IF F[i].ttl_tier = "warm"
             /\ (\/ F[i].importance < 300
                 \/ F[i].accessed_at = None /\ F[i].created_at < t - 30
                 \/ IsSome(F[i].accessed_at) /\ Get(F[i].accessed_at) < t - 30)
     THEN [F[i] EXCEPT !.ttl_tier = "cold"]
     ELSE F[i]]

\* decayImportance(): importance * 0.995, rounded down to the model's
\* resolution of one thousandth.
decayImportance(F, t) ==
  [i \in DOMAIN F |->
     IF /\ F[i].ttl_tier # "permanent"
        /\ F[i].type # "preference"
        /\ ~F[i].is_anchor
        /\ (F[i].accessed_at = None \/ Get(F[i].accessed_at) < t - 1)
     THEN [F[i] EXCEPT !.importance = (@ * 995) \div 1000]
     ELSE F[i]]

\* The rows deleteExpired() removes.
Expired(F, t) ==
  {i \in DOMAIN F :
     /\ F[i].importance < 100
     /\ F[i].ttl_tier # "permanent"
     /\ ~F[i].is_anchor
     /\ (F[i].accessed_at = None \/ Get(F[i].accessed_at) < t - 90)
     /\ F[i].created_at < t - 90
     /\ Cardinality(F[i].linked_to) = 1}

\* deleteExpired(): one DELETE; edges and versions go by cascade.
deleteExpired(F, L, V, t) ==
  LET gone == Expired(F, t)
  IN [F |-> [i \in DOMAIN F \ gone |-> F[i]],
      L |-> {e \in L : e.from \notin gone /\ e.to \notin gone},
      V |-> SelectSeq(V, LAMBDA v : v.fragment_id \notin gone),
      count |-> Cardinality(gone)]

\* generateMissingEmbeddings(batchSize): the batch holds every candidate row
\* of a store of MaxFrags rows.
generateMissingEmbeddings(F, apiKey) ==
  [i \in DOMAIN F |->
     IF apiKey /\ ~F[i].embedding /\ F[i].importance > Scale \div 2
     THEN [F[i] EXCEPT !.embedding = TRUE] ELSE F[i]]

---------------------------------------------------------------------------
(* MemoryConsolidator *)

\* _promoteAnchors()
promoteAnchors(F) ==
  [i \in DOMAIN F |->
     IF ~F[i].is_anchor /\ F[i].access_count >= 10 /\ F[i].importance >= 800
     THEN [F[i] EXCEPT !.is_anchor = TRUE] ELSE F[i]]

\* Creation times are compared as timestamps; rows created on the same day
\* are ordered by their ids, which grow with creation.
Stamp(F, i) == <<F[i].created_at, i>>

Later(s1, s2) == s1[1] > s2[1] \/ (s1[1] = s2[1] /\ s1[2] > s2[2])

\* _resolveContradiction(newFrag, candidate, reasoning)
resolveContradiction(F, L, n, c) ==
  LET l1 == createLink(F, L, n, c, "contradicts", "system")
  IN IF Later(Stamp(F, n), Stamp(F, c))
     THEN LET F1 == IF ~l1.F[c].is_anchor
                    THEN [l1.F EXCEPT ![c].importance = @ \div 2] ELSE l1.F
          IN createLink(F1, l1.L, c, n, "superseded_by", "system")
     ELSE createLink([l1.F EXCEPT ![n].importance = @ \div 2], l1.L, n, c,
                     "superseded_by", "system")

\* The judges of one run.  nliFwd is the NLI answer when the premise is the
\* newer fragment of a pair, nliBack when it is the older one (the classifier
\* is not symmetric): "contradiction" (score >= 0.8), "entailment" (no
\* contradiction, no escalation), "uncertain" (escalate) or "unavailable".
\* llm is the Gemini CLI's verdict, or "unavailable".
Judge(nliFwd, nliBack, llm) == [nliFwd |-> nliFwd, nliBack |-> nliBack, llm |-> llm]

\* Judges that agree on every pair: a contradiction, none, or no judge at hand.
Verdicts ==
  {Judge("contradiction", "contradiction", "contradicts"),
   Judge("entailment", "entailment", "compatible"),
   Judge("unavailable", "unavailable", "unavailable")}

\* nliDetect(newFrag.content, candidate.content)
nliDetect(judge, nStamp, cStamp) ==
  IF Later(nStamp, cStamp) THEN judge.nliFwd ELSE judge.nliBack

\* The body of the inner loop of _detectContradictions: new fragment n
\* against candidate c.
JudgePair(st, n, c, judge, nContent, nStamp) ==
  LET known == \E e \in st.L : /\ e.rel = "contradicts"
                               /\ {e.from, e.to} = {n, c}
      seen == IF st.latest = None \/ Later(nStamp, Get(st.latest))
              THEN Some(nStamp) ELSE st.latest
      nli  == nliDetect(judge, nStamp, Stamp(st.F, c))
  IN IF known THEN st
     ELSE IF nli = "contradiction"
       THEN LET r == resolveContradiction(st.F, st.L, n, c)
            IN [st EXCEPT !.F = r.F, !.L = r.L, !.found = @ + 1, !.latest = seen,
                          !.nliResolved = @ \cup {<<n, c>>}]
     ELSE IF nli = "entailment"
       THEN [st EXCEPT !.latest = seen]
     ELSE IF judge.llm = "unavailable"
       THEN IF Similarity(nContent, st.F[c].content) > 92
            THEN [st EXCEPT !.P = Append(@, [idA |-> n, idB |-> c])]
            ELSE st
     ELSE IF judge.llm = "contradicts"
       THEN LET r == resolveContradiction(st.F, st.L, n, c)
            IN [st EXCEPT !.F = r.F, !.L = r.L, !.found = @ + 1, !.latest = seen,
                          !.asked = @ \cup {<<n, c>>},
                          !.llmResolved = @ \cup {<<n, c>>}]
     ELSE [st EXCEPT !.latest = seen, !.asked = @ \cup {<<n, c>>}]

\* The inner loop of _detectContradictions for one new fragment; each pass
\* works on the state the pass before it left.
RECURSIVE JudgeCandidates(_, _, _, _, _, _)
JudgeCandidates(st, n, cands, judge, nContent, nStamp) ==
  IF cands = {} THEN st
  ELSE LET c == CHOOSE x \in cands : TRUE
       IN CHOOSE out \in {JudgeCandidates(s, n, cands \ {c}, judge, nContent, nStamp) :
                            s \in {JudgePair(st, n, c, judge, nContent, nStamp)}} : TRUE

\* The outer loop of _detectContradictions, newest fragment first.
RECURSIVE JudgeNew(_, _, _, _)
JudgeNew(st, news, F0, judge) ==
  IF news = {} THEN st
  ELSE
    LET n == CHOOSE x \in news : \A y \in news : x = y \/ Later(Stamp(F0, x), Stamp(F0, y))
        cands == {i \in DOMAIN st.F :
                    /\ i # n
                    /\ n \in DOMAIN st.F
                    /\ st.F[i].topic = F0[n].topic
                    /\ st.F[i].embedding
                    /\ st.F[n].embedding
                    /\ Similarity(st.F[n].content, st.F[i].content) > 85}
    IN CHOOSE out \in {JudgeNew(s, news \ {n}, F0, judge) :
                         s \in {JudgeCandidates(st, n, cands, judge, F0[n].content,
                                                Stamp(F0, n))}} : TRUE

\* _detectContradictions(): the state after the run, the pairs the NLI
\* answer resolved and the pairs the Gemini CLI was asked about.
detectContradictions(F, L, P, lastCheck, judge) ==
  LET news == {i \in DOMAIN F :
                 /\ F[i].embedding
                 /\ IsSome(lastCheck) => Later(Stamp(F, i), Get(lastCheck))}
      st0  == [F |-> F, L |-> L, P |-> P, found |-> 0, latest |-> None,
               nliResolved |-> {}, llmResolved |-> {}, asked |-> {}]
  IN CHOOSE out \in
       {[F |-> st.F, L |-> st.L, P |-> st.P, found |-> st.found,
         nliResolved |-> st.nliResolved, llmResolved |-> st.llmResolved,
         asked |-> st.asked,
         lastCheck |-> IF IsSome(st.latest) THEN st.latest ELSE lastCheck] :
          st \in {JudgeNew(st0, news, F, judge)}} : TRUE

batchSize == 10

\* _processPendingContradictions(): without the Gemini CLI nothing is taken
\* from the list; with it up to batchSize entries are taken from its head.
\* An entry whose verdict is a contradiction is resolved if both rows still
\* exist; when a store query throws, the entry is appended to the list again
\* and the loop ends.  Any other verdict, the { contradicts: false } that
\* _askGeminiContradiction returns for a failed call included, drops the
\* entry.
RECURSIVE ProcessPending(_, _, _, _, _)
ProcessPending(FL, P, judge, left, throws) ==
  IF P = <<>> \/ left = 0 THEN [F |-> FL.F, L |-> FL.L, P |-> P]
  ELSE LET e == Head(P)
       IN IF judge.llm = "contradicts" /\ throws
          THEN [F |-> FL.F, L |-> FL.L, P |-> Append(Tail(P), e)]
          ELSE IF judge.llm = "contradicts" /\ e.idA \in DOMAIN FL.F
                  /\ e.idB \in DOMAIN FL.F
          THEN CHOOSE out \in {ProcessPending(r, Tail(P), judge, left - 1, throws) :
                                 r \in {resolveContradiction(FL.F, FL.L, e.idA, e.idB)}} :
                 TRUE
          ELSE ProcessPending(FL, Tail(P), judge, left - 1, throws)

\* The stage of a run whose store query throws, if any, and the place of
\* that stage in the run.  All stages sit in one try block: the catch logs
\* the error and the run ends there.
FailingStages == {"none", "ttl", "decay", "expire"}

StageNo(failAt) ==
  CASE failAt = "ttl" -> 1
    [] failAt = "decay" -> 2
    [] failAt = "expire" -> 3
    [] OTHER -> 99

\* consolidate(): the stages in the order the code runs them (failAt
\* "pending": the store queries of the pending stage throw, which that stage
\* catches itself).  Duplicate
\* merging finds no group (content_hash is unique), the keyword sets stay
\* far below MAX_SET_SIZE, and the utility score, the feedback report and
\* the stale list do not feed back into the store.
Consolidate(judge, failAt) ==
  LET run(k) == k < StageNo(failAt)
      idle == judge.llm = "unavailable" \/ ~run(9)
  IN \E s1 \in {IF run(1) THEN transitionTTL(fragments, now) ELSE fragments} :
     \E s2 \in {IF run(2) THEN decayImportance(s1, now) ELSE s1} :
     \E s3 \in {IF run(3) THEN deleteExpired(s2, links, versions, now)
                ELSE [F |-> s2, L |-> links, V |-> versions, count |-> 0]} :
     \E s5 \in {IF run(5) THEN generateMissingEmbeddings(s3.F, OPENAI_API_KEY)
                ELSE s3.F} :
     \E s7 \in {IF run(7) THEN promoteAnchors(s5) ELSE s5} :
     \E s8 \in {IF run(8)
                THEN detectContradictions(s7, s3.L, pending, lastCheckAt, judge)
                ELSE [F |-> s7, L |-> s3.L, P |-> pending, lastCheck |-> lastCheckAt,
                      found |-> 0, nliResolved |-> {}, llmResolved |-> {},
                      asked |-> {}]} :
     \E s9 \in {IF idle THEN [F |-> s8.F, L |-> s8.L, P |-> s8.P]
                ELSE ProcessPending([F |-> s8.F, L |-> s8.L], s8.P, judge, batchSize,
                                    failAt = "pending")} :
       /\ ops' = ops + 1
       /\ fragments' = s9.F
       /\ links' = s9.L
       /\ versions' = s3.V
       /\ pending' = s9.P
       /\ lastCheckAt' = s8.lastCheck
       /\ last' = [op |-> "consolidate", arg |-> judge, failAt |-> failAt,
                   ret |-> [expiredDeleted |-> s3.count,
                            contradictionsFound |-> s8.found,
                            error |-> StageNo(failAt) < 99],
                   before |-> [F |-> s7, L |-> s3.L],
                   detected |-> [F |-> s8.F, L |-> s8.L, P |-> s8.P],
                   nliResolved |-> s8.nliResolved,
                   llmResolved |-> s8.llmResolved,
                   asked |-> s8.asked]
       /\ UNCHANGED <<kwIdx, tpIdx, tyIdx, recent, hot, evalQueue, nextId, now,
                      OPENAI_API_KEY, cacheWrites, wm, activity, server>>

---------------------------------------------------------------------------
(* MemoryManager.reflect *)

\* `[해결됨] ${err.trim()}`
MarkResolved(c) == IF c = "cE" THEN "cF" ELSE c

\* The fragments reflect creates, in the order it creates them: the summary
\* (one fragment: every modelled summary is one short sentence), decisions,
\* resolved errors, procedures.
ReflectItems(p) ==
  (IF IsSome(p.summary)
   THEN <<[content |-> Get(p.summary), type |-> "fact",
           importance |-> IMPORTANCE_WEIGHT("fact")]>>
   ELSE <<>>)
  \o [i \in 1..Len(p.decisions) |->
        [content |-> p.decisions[i], type |-> "decision", importance |-> 800]]
  \o [i \in 1..Len(p.errors_resolved) |->
        [content |-> MarkResolved(p.errors_resolved[i]), type |-> "error",
         importance |-> 500]]
  \o [i \in 1..Len(p.new_procedures) |->
        [content |-> p.new_procedures[i], type |-> "procedure", importance |-> 700]]

\* create + insert + index of each item; a rejected insert ends the call
\* with the earlier items stored.
RECURSIVE ReflectStore(_, _, _, _, _, _)
ReflectStore(st, items, agent, apiKey, t, up) ==
  IF items = <<>> \/ st.err THEN st
  ELSE
    LET it   == Head(items)
        frag == FactoryCreate(RememberPreset(it.content, "session_reflect", it.type,
                                             Some(it.importance), agent, {}, FALSE))
        ins  == insert(st.F, frag, st.next, apiKey, t, up)
    IN IF ins.err THEN [st EXCEPT !.err = TRUE]
       ELSE ReflectStore([F    |-> ins.F,
                          R    |-> index(st.R, ins.id, frag),
                          next |-> IF ins.inserted THEN st.next + 1 ELSE st.next,
                          made |-> Append(st.made, [id |-> ins.id, type |-> it.type]),
                          err  |-> FALSE],
                         Tail(items), agent, apiKey, t, up)

\* The ids reached from an id along linked_to, as the caller sees them.
RECURSIVE ReachableFrom(_, _, _, _)
ReachableFrom(F, agent, frontier, visited) ==
  IF frontier \subseteq visited THEN visited
  ELSE ReachableFrom(F, agent,
                     UNION {getLinkedIds(F, x, agent) : x \in frontier \ visited},
                     visited \cup frontier)

\* _wouldCreateCycle(fromId, toId, agentId); the walk's cap of 20 visited
\* nodes is beyond a store of MaxFrags rows.
wouldCreateCycle(F, from, to, agent) == from \in ReachableFrom(F, agent, {to}, {})

RECURSIVE LinkPairs(_, _, _, _, _)
LinkPairs(F, L, pairs, rel, agent) ==
  IF pairs = <<>> THEN [F |-> F, L |-> L]
  ELSE LET from == Head(pairs)[1]
           to   == Head(pairs)[2]
       IN IF wouldCreateCycle(F, from, to, agent)
          THEN LinkPairs(F, L, Tail(pairs), rel, agent)
          ELSE LET r == createLink(F, L, from, to, rel, agent)
               IN LinkPairs(r.F, r.L, Tail(pairs), rel, agent)

RECURSIVE Pairs(_, _)
Pairs(xs, ys) ==
  IF xs = <<>> THEN <<>>
  ELSE [j \in 1..Len(ys) |-> <<Head(xs), ys[j]>>] \o Pairs(Tail(xs), ys)

OfType(made, type) ==
  LET sel == SelectSeq(made, LAMBDA m : m.type = type)
  IN [i \in 1..Len(sel) |-> sel[i].id]

\* _autoLinkSessionFragments(fragments, agentId)
autoLinkSessionFragments(F, L, made, agent) ==
  LET errors     == OfType(made, "error")
      decisions  == OfType(made, "decision")
      procedures == OfType(made, "procedure")
      l1 == LinkPairs(F, L, Pairs(errors, decisions), "caused_by", agent)
  IN LinkPairs(l1.F, l1.L, Pairs(procedures, errors), "resolved_by", agent)

\* clearWorkingMemory(sessionId)
clearWorkingMemory(W, sessionId) ==
  IF IsSome(sessionId) THEN [W EXCEPT ![Get(sessionId)] = <<>>] ELSE W

\* reflect(params) on a given store, index and working memory: what it leaves
\* and whether it threw.  A throw skips the linking and the clearing.
reflect(F, L, R, W, next, p, apiKey, t, up) ==
  LET st == ReflectStore([F |-> F, R |-> R, next |-> next, made |-> <<>>,
                          err |-> FALSE],
                         ReflectItems(p), p.agentId, apiKey, t, up)
      lk == IF st.err THEN [F |-> st.F, L |-> L]
            ELSE autoLinkSessionFragments(st.F, L, st.made, p.agentId)
  IN [F |-> lk.F, L |-> lk.L, R |-> st.R, next |-> st.next, made |-> st.made,
      err |-> st.err,
      W |-> IF st.err THEN W ELSE clearWorkingMemory(W, p.sessionId)]

\* reflect(params) on a store that holds at most cap rows afterwards.
ReflectWithin(p, cap) ==
  \E r \in {reflect(fragments, links, Redis, wm, nextId, p, OPENAI_API_KEY, now, TRUE)} :
     /\ r.next <= cap + 1
     /\ ops' = ops + 1
     /\ fragments' = r.F
     /\ links' = r.L
     /\ SetRedis(r.R)
     /\ nextId' = r.next
     /\ wm' = r.W
     /\ last' = [op |-> "reflect", arg |-> p,
                 ret |-> [success |-> ~r.err, fragments |-> r.made,
                          count |-> Len(r.made)]]
     /\ UNCHANGED <<versions, evalQueue, pending, lastCheckAt, now, OPENAI_API_KEY,
                    cacheWrites, activity, server>>

Reflect(p) == ReflectWithin(p, MaxFrags)

\* The reflect calls the model makes (no summary, open question or task
\* feedback, no session id).
ReflectParams ==
  {[summary |-> None, sessionId |-> None,
    decisions |-> <<"cC">>, errors_resolved |-> <<"cE">>, new_procedures |-> <<>>,
    agentId |-> a] : a \in Callers}
  \cup {[summary |-> None, sessionId |-> None,
         decisions |-> <<>>, errors_resolved |-> <<"cE">>, new_procedures |-> <<"cQ">>,
         agentId |-> a] : a \in Callers}

---------------------------------------------------------------------------
(* db.js: queryWithAgent and queryWithAgentVector on the shared pool *)

\* The agent ids of the requests.
PoolAgents == {"default", "a1", "a.1"}

\* String(agentId || "default").replace(/[^a-zA-Z0-9_\-]/g, "")
SafeAgent(agent) == IF agent = "a.1" THEN "a1" ELSE agent

Frame ==
  UNCHANGED <<fragments, links, versions, kwIdx, tpIdx, tyIdx, recent, hot, evalQueue,
              pending, lastCheckAt, nextId, now, OPENAI_API_KEY, cacheWrites, wm,
              activity, evaluator, poolPrimary, shutdown, streamableSessions, nliModel>>

\* pool.connect(): a free connection is handed to the request alone.
QueryConnect(c, agent) ==
  /\ calls[c] = Idle
  /\ \E k \in Conns :
       /\ ~conns[k].held
       /\ conns' = [conns EXCEPT ![k].held = TRUE]
       /\ calls' = [calls EXCEPT ![c] = [pc |-> "connected", agent |-> agent,
                                         conn |-> k, ran |-> None]]
  /\ ops' = ops + 1
  /\ last' = [op |-> "connect", arg |-> agent]
  /\ Frame

\* BEGIN
QueryBegin(c) ==
  /\ calls[c].pc = "connected"
  /\ conns' = [conns EXCEPT ![calls[c].conn].tx = TRUE]
  /\ calls' = [calls EXCEPT ![c].pc = "begun"]
  /\ UNCHANGED <<ops, last>>
  /\ Frame

\* SET LOCAL app.current_agent_id = '<safeAgent>'
QuerySetLocal(c) ==
  /\ calls[c].pc = "begun"
  /\ conns' = [conns EXCEPT ![calls[c].conn].scope = Some(SafeAgent(calls[c].agent))]
  /\ calls' = [calls EXCEPT ![c].pc = "scoped"]
  /\ UNCHANGED <<ops, last>>
  /\ Frame

\* The scoped query: evaluated under the connection's scope; it succeeds or
\* throws.
QueryRun(c, ok) ==
  /\ calls[c].pc = "scoped"
  /\ calls' = [calls EXCEPT ![c].pc = IF ok THEN "ran" ELSE "threw",
                            ![c].ran = Some(conns[calls[c].conn].scope)]
  /\ last' = [op |-> "query", arg |-> calls[c].agent,
              scope |-> conns[calls[c].conn].scope]
  /\ UNCHANGED <<ops, conns>>
  /\ Frame

\* COMMIT, or ROLLBACK in the catch: either ends the transaction and with it
\* the SET LOCAL.  A ROLLBACK that fails (its error is swallowed) has lost
\* the connection.
QueryEnd(c, ok) ==
  /\ calls[c].pc \in {"ran", "threw"}
  /\ conns' = [conns EXCEPT ![calls[c].conn] =
                 IF calls[c].pc = "threw" /\ ~ok
                 THEN [@ EXCEPT !.broken = TRUE]
                 ELSE [@ EXCEPT !.tx = FALSE, !.scope = None]]
  /\ calls' = [calls EXCEPT ![c].pc = "ended"]
  /\ UNCHANGED <<ops, last>>
  /\ Frame

\* client.release() in the finally: the connection is free again; the pool
\* replaces a lost connection by a new one.
QueryRelease(c) ==
  /\ calls[c].pc = "ended"
  /\ conns' = [conns EXCEPT ![calls[c].conn] =
                 IF @.broken THEN Fresh ELSE [@ EXCEPT !.held = FALSE]]
  /\ calls' = [calls EXCEPT ![c] = Idle]
  /\ last' = [op |-> "release", arg |-> calls[c].agent, ran |-> calls[c].ran]
  /\ UNCHANGED ops
  /\ Frame

---------------------------------------------------------------------------
(* NLIClassifier.js: loadModel *)

NliFrame ==
  UNCHANGED <<fragments, links, versions, kwIdx, tpIdx, tyIdx, recent, hot, evalQueue,
              pending, lastCheckAt, nextId, now, OPENAI_API_KEY, cacheWrites, wm,
              activity, evaluator, poolPrimary, shutdown, conns, streamableSessions>>

\* Variant: the test of _loading dropped.
loadModelUnshared(N) ==
  IF N.model /\ N.tokenizer THEN "ready"
  ELSE IF N.failed THEN "failed"
  ELSE "start"

\* The three tests at the head of loadModel(): what the call does.
loadModel(N) ==
  IF N.model /\ N.tokenizer THEN "ready"
  ELSE IF N.failed THEN "failed"
  ELSE IF IsSome(N.loading) THEN "share"
  ELSE "start"

\* loadModel() up to its return: the loaded pair or null at once, the
\* promise of the load in flight, or a new load, which runs up to its first
\* await (the import) before _loading holds its promise.
LoadCall(c) ==
  /\ calls[c] = Idle \/ calls[c].pc = "done"
  /\ \E how \in {loadModel(nliModel)} :
       /\ nliModel' =
            IF how = "start"
            THEN [nliModel EXCEPT !.loads = Append(@, "import"),
                                  !.loading = Some(Len(nliModel.loads) + 1)]
            ELSE nliModel
       /\ calls' = [calls EXCEPT ![c] =
            CASE how = "ready"  -> [pc |-> "done", how |-> how, ret |-> "loaded"]
              [] how = "failed" -> [pc |-> "done", how |-> how, ret |-> "null"]
              [] how = "share"  -> [pc |-> "awaiting", how |-> how,
                                    promise |-> Get(nliModel.loading)]
              [] OTHER          -> [pc |-> "awaiting", how |-> how,
                                    promise |-> Len(nliModel.loads) + 1]]
       /\ last' = [op |-> "loadModel", arg |-> c, how |-> how]
  /\ ops' = ops + 1
  /\ NliFrame

\* One await of a load: the import, the tokenizer, the model.  It resolves,
\* or it throws: the catch sets _failed, the finally clears _loading.
LoadStep(id, ok) ==
  /\ id \in DOMAIN nliModel.loads
  /\ nliModel.loads[id] \in {"import", "tokenizer", "model"}
  /\ nliModel' =
       IF ~ok
       THEN [nliModel EXCEPT !.loads[id] = "null", !.failed = TRUE, !.loading = None]
       ELSE CASE nliModel.loads[id] = "import" ->
                   [nliModel EXCEPT !.loads[id] = "tokenizer"]
              [] nliModel.loads[id] = "tokenizer" ->
                   [nliModel EXCEPT !.loads[id] = "model", !.tokenizer = TRUE]
              [] OTHER ->
                   [nliModel EXCEPT !.loads[id] = "loaded", !.model = TRUE,
                                    !.loading = None]
  /\ last' = [op |-> "load", arg |-> id, ok |-> ok]
  /\ UNCHANGED <<ops, calls>>
  /\ NliFrame

\* The caller's await of the promise it was given.
LoadAwaited(c) ==
  /\ calls[c].pc = "awaiting"
  /\ nliModel.loads[calls[c].promise] \in {"loaded", "null"}
  /\ calls' = [calls EXCEPT ![c] = [pc |-> "done", how |-> calls[c].how,
                                    ret |-> nliModel.loads[calls[c].promise]]]
  /\ last' = [op |-> "loaded", arg |-> c]
  /\ UNCHANGED <<ops, nliModel>>
  /\ NliFrame

---------------------------------------------------------------------------
(* SessionActivityTracker and autoReflect *)

\* SessionActivityTracker.record(sessionId, {tool}): the tool handlers start
\* it after their call and do not await it.
Record(sid) ==
  /\ ops' = ops + 1
  /\ activity' = [activity EXCEPT ![sid].toolCalls = @ + 1]
  /\ last' = [op |-> "record", arg |-> sid]
  /\ UNCHANGED <<fragments, links, versions, kwIdx, tpIdx, tyIdx, recent, hot,
                 evalQueue, pending, lastCheckAt, nextId, now, OPENAI_API_KEY,
                 cacheWrites, wm, server>>

\* Variant: the mark is not written.
markReflectedNever(A, sid) == A

\* markReflected(sessionId)
markReflected(A, sid) == [A EXCEPT ![sid].reflected = TRUE]

\* What the Gemini CLI does for the summary prompt: not installed, no usable
\* answer (an error, or a JSON without summary), or a structured summary.
GeminiAnswers == {"unavailable", "failed", "summary"}

\* The reflect of _reflectMinimal: the generated one-sentence summary only.
MinimalParams(sid) ==
  [summary |-> Some("cS"), sessionId |-> Some(sid), decisions |-> <<>>,
   errors_resolved |-> <<>>, new_procedures |-> <<>>, agentId |-> "default"]

\* The reflect of _reflectWithGemini: the summary and decision of the answer.
GeminiParams(sid) ==
  [summary |-> Some("cG"), sessionId |-> Some(sid), decisions |-> <<"cC">>,
   errors_resolved |-> <<>>, new_procedures |-> <<>>, agentId |-> "default"]

\* autoReflect(sessionId) with the store reachable or not.  A reflect that
\* throws inside _reflectWithGemini is retried as a minimal reflect; a throw
\* of the minimal reflect is caught by autoReflect, which returns null.
autoReflect(sid, gemini, up) ==
  LET act == activity[sid]
      skip == act.reflected \/ act.toolCalls = 0
      none == [F |-> fragments, L |-> links, R |-> Redis, W |-> wm, next |-> nextId,
               made |-> <<>>, err |-> FALSE]
  IN \E r1 \in {IF skip \/ gemini # "summary" THEN none
                ELSE reflect(fragments, links, Redis, wm, nextId, GeminiParams(sid),
                             OPENAI_API_KEY, now, up)} :
     \E r \in {IF skip THEN none
               ELSE IF gemini = "summary" /\ ~r1.err THEN r1
               ELSE reflect(r1.F, r1.L, r1.R, r1.W, r1.next, MinimalParams(sid),
                            OPENAI_API_KEY, now, up)} :
       /\ r.next <= MaxFrags + 1
       /\ ops' = ops + 1
       /\ fragments' = r.F
       /\ links' = r.L
       /\ SetRedis(r.R)
       /\ nextId' = r.next
       /\ wm' = r.W
       /\ activity' = IF act.reflected \/ (~skip /\ r.err) THEN activity
                      ELSE markReflected(activity, sid)
       /\ last' = [op |-> "autoReflect", arg |-> sid, gemini |-> gemini, up |-> up,
                   was |-> act,
                   ret |-> IF skip \/ r.err THEN None ELSE Some(Len(r.made))]
       /\ UNCHANGED <<versions, evalQueue, pending, lastCheckAt, now, OPENAI_API_KEY, calls, conns,
                      cacheWrites>>

\* autoReflect(sessionId) at the close or expiry of a session.
AutoReflect(sid, gemini, up) == autoReflect(sid, gemini, up) /\ UNCHANGED server

\* record(sessionId, data) as the read-modify-write it is: first _getLog.
\* data is a tool call ({tool}) or the mark ({action: "reflected"}).
RecordGetLog(c, sid, data) ==
  /\ calls[c] = Idle
  /\ calls' = [calls EXCEPT ![c] = [pc |-> "record", sid |-> sid, data |-> data,
                                    log |-> activity[sid]]]
  /\ ops' = ops + 1
  /\ last' = [op |-> "getLog", arg |-> sid, data |-> data]
  /\ UNCHANGED <<fragments, links, versions, kwIdx, tpIdx, tyIdx, recent, hot, evalQueue,
                 pending, lastCheckAt, nextId, now, OPENAI_API_KEY, cacheWrites, wm,
                 activity, evaluator, poolPrimary, shutdown, conns, streamableSessions, nliModel>>

\* record, second half: the log it read, changed, is written back whole
\* (setex).
RecordSetex(c) ==
  /\ calls[c].pc = "record"
  /\ activity' = [activity EXCEPT ![calls[c].sid] =
                    IF calls[c].data = "tool"
                    THEN [calls[c].log EXCEPT !.toolCalls = @ + 1]
                    ELSE [calls[c].log EXCEPT !.reflected = TRUE]]
  /\ calls' = [calls EXCEPT ![c] = Idle]
  /\ last' = [op |-> "setex", arg |-> calls[c].sid, data |-> calls[c].data]
  /\ UNCHANGED <<fragments, links, versions, kwIdx, tpIdx, tyIdx, recent, hot, evalQueue,
                 pending, lastCheckAt, nextId, now, ops, OPENAI_API_KEY, cacheWrites, wm,
                 evaluator, poolPrimary, shutdown, conns, streamableSessions, nliModel>>

\* closeStreamableSession(sessionId), called by the DELETE handler, by
\* cleanupExpiredSessions and by gracefulShutdown; its awaits are the places
\* where two of them interleave.  First the session is looked up and
\* autoReflect reads the activity log.
CloseRead(c, sid, by) ==
  /\ calls[c] = Idle
  /\ shutdown # "exited"
  /\ sid \in streamableSessions
  /\ calls' = [calls EXCEPT ![c] = [pc |-> "read", sid |-> sid,
                                    activity |-> activity[sid], made |-> 0]]
  /\ ops' = ops + 1
  /\ last' = [op |-> "close", arg |-> sid, by |-> by]
  /\ UNCHANGED <<fragments, links, versions, kwIdx, tpIdx, tyIdx, recent, hot, evalQueue,
                 pending, lastCheckAt, nextId, now, OPENAI_API_KEY, cacheWrites, wm,
                 activity, evaluator, poolPrimary, shutdown, conns, streamableSessions, nliModel>>

\* autoReflect from the activity log it read: the checks, then the reflect
\* of _reflectWithGemini or _reflectMinimal.
CloseReflect(c, gemini, up) ==
  /\ calls[c].pc = "read"
  /\ LET sid  == calls[c].sid
         act  == calls[c].activity
         skip == act.reflected \/ act.toolCalls = 0
         none == [F |-> fragments, L |-> links, R |-> Redis, W |-> wm, next |-> nextId,
                  made |-> <<>>, err |-> FALSE]
     IN \E r1 \in {IF skip \/ gemini # "summary" THEN none
                   ELSE reflect(fragments, links, Redis, wm, nextId, GeminiParams(sid),
                                OPENAI_API_KEY, now, up)} :
        \E r \in {IF skip THEN none
                  ELSE IF gemini = "summary" /\ ~r1.err THEN r1
                  ELSE reflect(r1.F, r1.L, r1.R, r1.W, r1.next, MinimalParams(sid),
                               OPENAI_API_KEY, now, up)} :
          /\ r.next <= MaxFrags + 1
          /\ fragments' = r.F
          /\ links' = r.L
          /\ SetRedis(r.R)
          /\ nextId' = r.next
          /\ wm' = r.W
          /\ calls' = [calls EXCEPT
                         ![c].pc = IF act.reflected \/ (~skip /\ r.err)
                                   THEN "closing" ELSE "marking",
                         ![c].made = r.next - nextId]
          /\ last' = [op |-> "closeReflect", arg |-> sid, gemini |-> gemini,
                      up |-> up, was |-> act]
  /\ UNCHANGED <<versions, evalQueue, pending, lastCheckAt, now, ops, OPENAI_API_KEY,
                 cacheWrites, activity, evaluator, poolPrimary, shutdown, conns,
                 streamableSessions, nliModel>>

\* await SessionActivityTracker.markReflected(sessionId)
CloseMark(c) ==
  /\ calls[c].pc = "marking"
  /\ activity' = markReflected(activity, calls[c].sid)
  /\ calls' = [calls EXCEPT ![c].pc = "closing"]
  /\ last' = [op |-> "closeMark", arg |-> calls[c].sid]
  /\ UNCHANGED <<fragments, links, versions, kwIdx, tpIdx, tyIdx, recent, hot, evalQueue,
                 pending, lastCheckAt, nextId, now, ops, OPENAI_API_KEY, cacheWrites, wm,
                 evaluator, poolPrimary, shutdown, conns, streamableSessions, nliModel>>

\* await session.close(): the session leaves the map.
CloseSession(c) ==
  /\ calls[c].pc = "closing"
  /\ streamableSessions' = streamableSessions \ {calls[c].sid}
  /\ calls' = [calls EXCEPT ![c] = Idle]
  /\ last' = [op |-> "closed", arg |-> calls[c].sid, made |-> calls[c].made]
  /\ UNCHANGED <<fragments, links, versions, kwIdx, tpIdx, tyIdx, recent, hot, evalQueue,
                 pending, lastCheckAt, nextId, now, ops, OPENAI_API_KEY, cacheWrites, wm,
                 activity, evaluator, poolPrimary, shutdown, conns, nliModel>>

---------------------------------------------------------------------------
(* MemoryEvaluator and gracefulShutdown *)

\* popFromQueue("memory_evaluation"): the oldest job, or none.
popFromQueue(Q) ==
  IF Q = <<>> THEN [job |-> None, Q |-> Q] ELSE [job |-> Some(Head(Q)), Q |-> Tail(Q)]

\* _loop(): the worker, still running and between two jobs, takes the next
\* job from the queue (an empty queue makes it sleep and look again).
WorkerPop ==
  /\ evaluator.running /\ evaluator.pc = "idle"
  /\ shutdown # "exited"
  /\ IsSome(popFromQueue(evalQueue).job)
  /\ evaluator' = [evaluator EXCEPT !.pc = "evaluating",
                                    !.job = popFromQueue(evalQueue).job]
  /\ evalQueue' = popFromQueue(evalQueue).Q
  /\ last' = [op |-> "pop", arg |-> Get(popFromQueue(evalQueue).job).fragmentId]
  /\ UNCHANGED <<fragments, links, versions, kwIdx, tpIdx, tyIdx, recent, hot,
                 pending, lastCheckAt, nextId, now, ops, OPENAI_API_KEY, calls,
                 cacheWrites, wm, activity, poolPrimary, conns, streamableSessions, nliModel, shutdown>>

\* What the Gemini CLI answers for a job: nothing usable (not installed, an
\* error), or an action with the score 0.6.
EvalAnswers == {"unavailable", "keep", "downgrade", "discard"}

EvalScore == 600

\* The importance evaluate() writes for an answer.
EvalImportance(answer) ==
  CASE answer = "downgrade" -> IF EvalScore < 300 THEN EvalScore ELSE 300
    [] answer = "discard" -> 100
    [] OTHER -> EvalScore

\* evaluate(job), from the answer of the Gemini CLI on: the row gets the
\* importance of the answer and, if the job's agent can read it, the
\* rationale among its keywords.  An error of a store call (stored = FALSE)
\* is caught and drops the job.
evaluate(F, V, job, answer, stored, t) ==
  LET existing == getById(F, job.fragmentId, job.agentId)
      updates  == [NoUpdates EXCEPT
                     !.importance = Some(EvalImportance(answer)),
                     !.keywords = IF IsSome(existing)
                                  THEN Some(F[Get(existing)].keywords \cup {"Rationale"})
                                  ELSE None]
  IN IF answer = "unavailable" \/ ~stored THEN [F |-> F, V |-> V]
     ELSE LET r == update(F, V, job.fragmentId, updates, job.agentId, TRUE, t)
          IN [F |-> r.F, V |-> r.V]

\* The worker finishes its job.  While the pool is open the store calls go
\* through; on a pool that has been ended they throw, unless the pool
\* variable was already cleared and getPrimaryPool() builds a new pool.
WorkerEvaluate(answer, stored) ==
  /\ evaluator.pc = "evaluating"
  /\ shutdown # "exited"
  /\ poolPrimary = "open" => stored
  /\ \E r \in {evaluate(fragments, versions, Get(evaluator.job), answer, stored, now)} :
       /\ fragments' = r.F
       /\ versions' = r.V
  /\ evaluator' = [evaluator EXCEPT !.pc = "idle", !.job = None]
  /\ last' = [op |-> "evaluate", arg |-> Get(evaluator.job).fragmentId,
              answer |-> answer, stored |-> stored]
  /\ UNCHANGED <<links, kwIdx, tpIdx, tyIdx, recent, hot, evalQueue, pending,
                 lastCheckAt, nextId, now, ops, OPENAI_API_KEY, calls, cacheWrites, wm,
                 activity, poolPrimary, conns, streamableSessions, nliModel, shutdown>>

\* _loop(): between two jobs the worker finds running false and returns.
WorkerExit ==
  /\ ~evaluator.running /\ evaluator.pc = "idle"
  /\ shutdown # "exited"
  /\ evaluator' = [evaluator EXCEPT !.pc = "exited"]
  /\ last' = [op |-> "workerExit"]
  /\ UNCHANGED <<fragments, links, versions, kwIdx, tpIdx, tyIdx, recent, hot,
                 evalQueue, pending, lastCheckAt, nextId, now, ops, OPENAI_API_KEY, calls,
                 cacheWrites, wm, activity, poolPrimary, conns, streamableSessions, nliModel, shutdown>>

\* stop()
stop(E) == [E EXCEPT !.running = FALSE]

\* start(): nothing while running; else the flag is set and a new _loop()
\* begins.
start(E) ==
  IF E.running THEN E
  ELSE [E EXCEPT !.running = TRUE,
                 !.more = Append(@, [pc |-> "idle", job |-> None])]

Start ==
  /\ shutdown = "none"
  /\ evaluator' = start(evaluator)
  /\ ops' = ops + 1
  /\ last' = [op |-> "start", was |-> evaluator.running]
  /\ UNCHANGED <<fragments, links, versions, kwIdx, tpIdx, tyIdx, recent, hot,
                 evalQueue, pending, lastCheckAt, nextId, now, OPENAI_API_KEY, calls,
                 cacheWrites, wm, activity, poolPrimary, conns, streamableSessions, nliModel, shutdown>>

Stop ==
  /\ shutdown = "none"
  /\ evaluator' = stop(evaluator)
  /\ ops' = ops + 1
  /\ last' = [op |-> "stop", was |-> evaluator.running]
  /\ UNCHANGED <<fragments, links, versions, kwIdx, tpIdx, tyIdx, recent, hot,
                 evalQueue, pending, lastCheckAt, nextId, now, OPENAI_API_KEY, calls,
                 cacheWrites, wm, activity, poolPrimary, conns, streamableSessions, nliModel, shutdown>>

\* _loop() of a later start(): the same three steps as the first loop's.
LoopPop(i) ==
  /\ i \in DOMAIN evaluator.more
  /\ evaluator.running /\ evaluator.more[i].pc = "idle"
  /\ IsSome(popFromQueue(evalQueue).job)
  /\ evaluator' = [evaluator EXCEPT !.more[i] =
                     [pc |-> "evaluating", job |-> popFromQueue(evalQueue).job]]
  /\ evalQueue' = popFromQueue(evalQueue).Q
  /\ last' = [op |-> "pop", arg |-> Get(popFromQueue(evalQueue).job).fragmentId]
  /\ UNCHANGED <<fragments, links, versions, kwIdx, tpIdx, tyIdx, recent, hot,
                 pending, lastCheckAt, nextId, now, ops, OPENAI_API_KEY, calls,
                 cacheWrites, wm, activity, poolPrimary, conns, streamableSessions, nliModel, shutdown>>

LoopEvaluate(i, answer, stored) ==
  /\ i \in DOMAIN evaluator.more
  /\ evaluator.more[i].pc = "evaluating"
  /\ poolPrimary = "open" => stored
  /\ \E r \in {evaluate(fragments, versions, Get(evaluator.more[i].job), answer,
                         stored, now)} :
       /\ fragments' = r.F
       /\ versions' = r.V
  /\ evaluator' = [evaluator EXCEPT !.more[i] = [pc |-> "idle", job |-> None]]
  /\ last' = [op |-> "evaluate", arg |-> Get(evaluator.more[i].job).fragmentId,
              answer |-> answer, stored |-> stored]
  /\ UNCHANGED <<links, kwIdx, tpIdx, tyIdx, recent, hot, evalQueue, pending,
                 lastCheckAt, nextId, now, ops, OPENAI_API_KEY, calls, cacheWrites, wm,
                 activity, poolPrimary, conns, streamableSessions, nliModel, shutdown>>

LoopExit(i) ==
  /\ i \in DOMAIN evaluator.more
  /\ ~evaluator.running /\ evaluator.more[i].pc = "idle"
  /\ evaluator' = [evaluator EXCEPT !.more[i].pc = "exited"]
  /\ last' = [op |-> "workerExit"]
  /\ UNCHANGED <<fragments, links, versions, kwIdx, tpIdx, tyIdx, recent, hot,
                 evalQueue, pending, lastCheckAt, nextId, now, ops, OPENAI_API_KEY, calls,
                 cacheWrites, wm, activity, poolPrimary, conns, streamableSessions, nliModel, shutdown>>

\* gracefulShutdown(signal), first part: the HTTP server stops accepting and
\* every session is closed with its auto-reflect.
ShutdownSessions(gemini, up) ==
  /\ shutdown = "none"
  /\ shutdown' = "sessions"
  /\ \E sid \in streamableSessions :
       /\ autoReflect(sid, gemini, up)
       /\ streamableSessions' = streamableSessions \ {sid}
  /\ UNCHANGED <<evaluator, poolPrimary, conns, calls, nliModel>>

\* gracefulShutdown(signal), second part: stop() of the worker and, in the
\* same turn and without waiting for the worker, shutdownPool() ends the pool.
ShutdownStopAndDrain ==
  /\ shutdown = "sessions"
  /\ shutdown' = "drained"
  /\ evaluator' = stop(evaluator)
  /\ poolPrimary' = "closed"
  /\ last' = [op |-> "shutdownPool", job |-> evaluator.job]
  /\ UNCHANGED <<fragments, links, versions, kwIdx, tpIdx, tyIdx, recent, hot,
                 evalQueue, pending, lastCheckAt, nextId, now, ops, OPENAI_API_KEY, calls, conns, streamableSessions, nliModel,
                 cacheWrites, wm, activity>>

\* gracefulShutdown(signal), last part: process.exit(0) ends every task.
ShutdownExit ==
  /\ shutdown = "drained"
  /\ shutdown' = "exited"
  /\ last' = [op |-> "exit", job |-> evaluator.job]
  /\ UNCHANGED <<fragments, links, versions, kwIdx, tpIdx, tyIdx, recent, hot,
                 evalQueue, pending, lastCheckAt, nextId, now, ops, OPENAI_API_KEY, calls,
                 cacheWrites, wm, activity, evaluator, poolPrimary, conns, streamableSessions, nliModel>>

AdvanceClock(d) ==
  /\ ops' = ops + 1
  /\ now' = now + d
  /\ hot' = <<>>
  /\ last' = [op |-> "clock", arg |-> d]
  /\ UNCHANGED <<fragments, links, versions, kwIdx, tpIdx, tyIdx, recent,
                 evalQueue, pending, lastCheckAt, nextId, OPENAI_API_KEY, cacheWrites, wm, activity, server>>

Next ==
  \/ ops < MaxOps /\ \E p \in RememberParams : Remember(p, TRUE, "none")
  \/ ops < MaxOps /\ \E p \in RecallParams : Recall(p)
  \/ ops < MaxOps /\ \E p \in ForgetParams : Forget(p)
  \/ ops < MaxOps /\ \E p \in LinkParams, ok \in BOOLEAN : Link(p, ok)
  \/ ops < MaxOps /\ \E p \in AmendParams, ok \in BOOLEAN : Amend(p, ok)
  \/ ops < MaxOps /\ \E p \in ReflectParams : Reflect(p)
  \/ ops < MaxOps /\ \E v \in Verdicts : Consolidate(v, "none")
  \/ ops < MaxOps /\ \E d \in {91} : AdvanceClock(d)

Spec == Init /\ [][Next]_vars

\* Maintenance runs after a deletion: fewer kinds of call, one call more.
MaintenanceParams ==
  {RememberPreset("cA", "t1", "fact", None, "default", {}, FALSE)}
  \cup {RememberPreset("cB", "t1", "fact", None, "default", {i}, FALSE) :
          i \in 1..(nextId - 1)}

NextMaintenance ==
  \/ ops < MaxOps + 1 /\ \E p \in MaintenanceParams : Remember(p, TRUE, "none")
  \/ ops < MaxOps + 1 /\ \E p \in ForgetParams : Forget(p)
  \/ ops < MaxOps + 1 /\ \E v \in Verdicts, f \in FailingStages :
                           Consolidate(v, f)
  \/ ops < MaxOps + 1 /\ \E d \in {91} : AdvanceClock(d)

SpecMaintenance == Init /\ [][NextMaintenance]_vars

\* Recalls whose cache write-back overlaps later calls: remember, recall
\* and forget by the default agent, two calls more.
OverlapRememberParams ==
  {RememberPreset("cB", "t1", "fact", Some(900), "default", {}, FALSE),
   RememberPreset("cB", "t2", "fact", Some(50), "default", {}, FALSE),
   RememberPreset("cA", "t1", "fact", None, "default", {}, FALSE)}

OverlapRecallParams ==
  {RecallPreset({"k1"}, None, 0, FALSE, "default"),
   RecallPreset({}, Some("t1"), 0, FALSE, "default"),
   RecallPreset({}, Some("t2"), 0, FALSE, "default")}

NextOverlap ==
  \/ ops < MaxOps + 2 /\ \E p \in OverlapRememberParams : Remember(p, TRUE, "none")
  \/ ops < MaxOps + 2 /\ \E p \in OverlapRecallParams : RecallStep(p, TRUE)
  \/ ops < MaxOps + 2 /\ \E p \in ForgetParams : Forget(p)
  \/ CacheWritesLand

SpecOverlap == Init /\ [][NextOverlap]_vars

\* Sessions that end: tool calls recorded for a session, texts of another
\* agent, and the auto-reflect of the session.
SessionRememberParams ==
  {RememberPreset("cG", "t1", "fact", None, "a1", {}, FALSE),
   RememberPreset("cS", "t1", "fact", None, "a1", {}, FALSE),
   RememberPreset("cC", "t2", "decision", None, "default", {}, FALSE)}

NextSessions ==
  \/ ops < MaxOps + 1 /\ \E s \in Sessions : Record(s)
  \/ ops < MaxOps + 1 /\ \E s \in Sessions, g \in GeminiAnswers, up \in BOOLEAN :
                           AutoReflect(s, g, up)
  \/ ops < MaxOps + 1 /\ \E p \in SessionRememberParams : Remember(p, TRUE, "none")

SpecSessions == Init /\ [][NextSessions]_vars

\* A server that is shut down while its worker has jobs: remember calls that
\* enqueue, the worker, and the steps of gracefulShutdown.
ShutdownRememberParams ==
  {RememberPreset("cC", "t2", "decision", None, "default", {}, FALSE),
   RememberPreset("cB", "t1", "preference", None, "a1", {}, FALSE),
   RememberPreset("cA", "t1", "fact", None, "default", {}, FALSE)}

NextShutdown ==
  \/ ops < MaxOps /\ shutdown = "none"
       /\ \E p \in ShutdownRememberParams : Remember(p, TRUE, "none")
  \/ ops < MaxOps /\ shutdown = "none" /\ \E s \in Sessions : Record(s)
  \/ WorkerPop
  \/ \E a \in EvalAnswers, stored \in BOOLEAN : WorkerEvaluate(a, stored)
  \/ WorkerExit
  \/ \E g \in GeminiAnswers, up \in BOOLEAN : ShutdownSessions(g, up)
  \/ ShutdownStopAndDrain
  \/ ShutdownExit

SpecShutdown == Init /\ [][NextShutdown]_vars

\* Fragments stored as anchors, then time and consolidation runs.
AnchorParams ==
  {RememberPreset("cA", "t1", "fact", None, "default", {}, TRUE),
   RememberPreset("cB", "t2", "fact", Some(50), "default", {}, TRUE),
   RememberPreset("cC", "t2", "decision", None, "a1", {}, TRUE)}

NextAnchors ==
  \/ ops < MaxOps + 1 /\ \E p \in AnchorParams : Remember(p, TRUE, "none")
  \/ ops < MaxOps + 1 /\ \E v \in Verdicts : Consolidate(v, "none")
  \/ ops < MaxOps + 1 /\ \E d \in {31, 91} : AdvanceClock(d)

SpecAnchors == Init /\ [][NextAnchors]_vars

\* Session reflections of up to four items: one decision, two resolved
\* errors and one procedure, or fewer.
SessionReflectParams ==
  {[summary |-> None, sessionId |-> None, decisions |-> <<"cC">>,
    errors_resolved |-> <<"cE", "cB">>, new_procedures |-> <<"cQ">>, agentId |-> a]
     : a \in Callers}
  \cup {[summary |-> None, sessionId |-> None, decisions |-> <<"cC">>,
          errors_resolved |-> <<"cE">>, new_procedures |-> <<"cQ">>, agentId |-> a]
           : a \in Callers}
  \cup ReflectParams

NextReflect ==
  \/ ops < MaxOps /\ \E p \in SessionReflectParams : ReflectWithin(p, MaxFrags + 1)
  \/ ops < MaxOps /\ \E p \in LinkParams : Link(p, TRUE)
  \/ ops < MaxOps /\ \E p \in ForgetParams : Forget(p)

SpecReflect == Init /\ [][NextReflect]_vars

\* Forgetting by topic, on a store whose rows were written with the Redis
\* index ready or not.
TopicForgetParams ==
  {[id |-> None, topic |-> Some(tp), force |-> f, agentId |-> a] :
     tp \in {"t1", "t2"}, f \in BOOLEAN, a \in Callers}

NextForget ==
  \/ ops < MaxOps /\ \E p \in RememberParams, f \in {"none", "index"} :
                       Remember(p, TRUE, f)
  \/ ops < MaxOps /\ \E p \in TopicForgetParams : Forget(p)

SpecForget == Init /\ [][NextForget]_vars

\* Two clients amending at once.
NextAmends ==
  \/ ops < MaxOps /\ Remember(RememberPreset("cA", "t1", "fact", None, "default", {}, FALSE),
                              TRUE, "none")
  \/ ops < MaxOps + 1 /\ \E c \in Clients, p \in OverlappingAmendParams : AmendBegin(c, p)
  \/ \E c \in Clients : AmendArchive(c)
  \/ \E c \in Clients : AmendWrite(c)

SpecAmends == Init /\ [][NextAmends]_vars

\* Two clients remembering at once.
OverlappingRememberParams ==
  {RememberPreset("cA", "t1", "fact", None, a, {}, FALSE) : a \in Callers}
  \cup {RememberPreset("cA", "t1", "fact", Some(900), "default", {}, FALSE),
        RememberPreset("cC", "t2", "decision", None, "a1", {}, FALSE)}

NextRemembers ==
  \/ ops < MaxOps /\ \E c \in Clients, p \in OverlappingRememberParams :
                       RememberProbe(c, p)
  \/ \E c \in Clients : RememberInsert(c)

SpecRemembers == Init /\ [][NextRemembers]_vars

\* One session's working memory filled with long entries.
WmRememberParams ==
  {[RememberPreset(ci[1], "t1", "fact", Some(ci[2]), "default", {}, FALSE)
      EXCEPT !.scope = "session", !.sessionId = Some(sid)] :
     ci \in {<<"cL", 500>>, <<"cL", 900>>, <<"cS", 800>>}, sid \in Sessions}

NextWm ==
  ops < MaxOps + 5 /\ \E p \in WmRememberParams : Remember(p, TRUE, "none")

SpecWm == Init /\ [][NextWm]_vars

\* A session with recorded tool calls that is closed from several places.
Closers == {"delete", "cleanup", "shutdown"}

NextClose ==
  \/ ops < MaxOps + 1 /\ \E s \in Sessions : Record(s)
  \/ ops < MaxOps + 1 /\ \E c \in Clients, s \in Sessions, by \in Closers :
                           CloseRead(c, s, by)
  \/ \E c \in Clients, g \in GeminiAnswers, up \in BOOLEAN : CloseReflect(c, g, up)
  \/ \E c \in Clients : CloseMark(c)
  \/ \E c \in Clients : CloseSession(c)

SpecClose == Init /\ [][NextClose]_vars

\* Tool calls and marks of one session whose record calls overlap.
NextActivity ==
  \/ ops < MaxOps + 2 /\ \E c \in Clients, s \in Sessions, d \in {"tool", "reflected"} :
                           RecordGetLog(c, s, d)
  \/ \E c \in Clients : RecordSetex(c)

SpecActivity == Init /\ [][NextActivity]_vars

\* The evaluator started and stopped while jobs arrive.
NextEvaluator ==
  \/ ops < MaxOps + 1 /\ \E p \in ShutdownRememberParams : Remember(p, TRUE, "none")
  \/ ops < MaxOps + 1 /\ Start
  \/ ops < MaxOps + 1 /\ Stop
  \/ WorkerPop
  \/ \E a \in {"unavailable", "keep"} : WorkerEvaluate(a, TRUE)
  \/ WorkerExit
  \/ \E i \in 1..MaxOps : LoopPop(i)
  \/ \E i \in 1..MaxOps, a \in {"unavailable", "keep"} : LoopEvaluate(i, a, TRUE)
  \/ \E i \in 1..MaxOps : LoopExit(i)

SpecEvaluator == Init /\ [][NextEvaluator]_vars

\* NLI calls of two clients around one model load.
NextNli ==
  \/ ops < MaxOps + 2 /\ \E c \in Clients : LoadCall(c)
  \/ \E id \in 1..(MaxOps + 3), ok \in BOOLEAN : LoadStep(id, ok)
  \/ \E c \in Clients : LoadAwaited(c)

SpecNli == Init /\ [][NextNli]_vars

\* Scoped queries of two clients on the pool.
NextPool ==
  \/ ops < MaxOps + 2 /\ \E c \in Clients, a \in PoolAgents : QueryConnect(c, a)
  \/ \E c \in Clients : QueryBegin(c)
  \/ \E c \in Clients : QuerySetLocal(c)
  \/ \E c \in Clients, ok \in BOOLEAN : QueryRun(c, ok)
  \/ \E c \in Clients, ok \in BOOLEAN : QueryEnd(c, ok)
  \/ \E c \in Clients : QueryRelease(c)

SpecPool == Init /\ [][NextPool]_vars

\* Contradiction detection with judges that differ by direction: two
\* similar fragments on one topic, one call more.
Judges ==
  Verdicts \cup {Judge("entailment", "contradiction", "unavailable"),
                 Judge("contradiction", "entailment", "compatible"),
                 Judge("uncertain", "uncertain", "contradicts")}

ContradictionParams ==
  {RememberPreset("cA", "t1", "fact", Some(900), "default", {}, FALSE),
   RememberPreset("cB", "t1", "fact", Some(900), "default", {}, FALSE),
   RememberPreset("cC", "t2", "fact", None, "default", {}, FALSE)}

NextContradictions ==
  \/ ops < MaxOps + 1 /\ \E p \in ContradictionParams : Remember(p, TRUE, "none")
  \/ ops < MaxOps + 1 /\ \E j \in Judges : Consolidate(j, "none")

SpecContradictions == Init /\ [][NextContradictions]_vars

\* A pair flagged again and again while no judge is at hand, then runs with
\* the Gemini CLI answering, failing, or the store failing.
PendingJudges ==
  {Judge("unavailable", "unavailable", "unavailable"),
   Judge("unavailable", "unavailable", "failed"),
   Judge("unavailable", "unavailable", "contradicts")}

NextPending ==
  \/ ops < MaxOps + 6 /\ nextId <= 2
       /\ \E p \in ContradictionParams : Remember(p, TRUE, "none")
  \/ ops < MaxOps + 6 /\ nextId > 2
       /\ \E j \in PendingJudges, f \in {"none", "pending"} : Consolidate(j, f)

SpecPending == Init /\ [][NextPending]_vars

\* remember under faults and with either scope.
FaultRememberParams ==
  LET base == {RememberPreset("cA", "t1", "fact", None, "default", {}, FALSE),
               RememberPreset("cC", "t2", "decision", None, "default", {}, FALSE),
               RememberPreset("", "t1", "fact", None, "default", {}, FALSE)}
              \cup {RememberPreset("cB", "t1", "fact", Some(900), "default", {i}, FALSE) :
                      i \in 1..(nextId - 1)}
  IN base
     \cup {[RememberPreset("cA", "t1", "fact", None, "default", {}, FALSE)
              EXCEPT !.scope = "session", !.sessionId = sid] :
             sid \in {None} \cup {Some(x) : x \in Sessions}}

\* The store unreachable, or reachable with at most one failing later step.
FaultInputs == {<<FALSE, "none">>} \cup {<<TRUE, f>> : f \in Faults}

NextFaults ==
  \/ ops < MaxOps /\ \E p \in FaultRememberParams, x \in FaultInputs :
                       Remember(p, x[1], x[2])
  \/ ops < MaxOps /\ Recall(RecallPreset({"k1"}, None, 0, FALSE, "default"))

SpecFaults == Init /\ [][NextFaults]_vars

---------------------------------------------------------------------------
(* Properties *)

Step(name) == last'.op = name /\ ops' = ops + 1

ReturnedIds(ret) == {f.id : f \in Range(ret.fragments)}

\* C1: a consolidation run leaves every anchor in place, with its
\* importance and its ttl_tier unchanged.
C1_AnchorsSurviveConsolidation ==
  [][Step("consolidate") =>
       \A i \in DOMAIN fragments :
         fragments[i].is_anchor =>
           /\ i \in DOMAIN fragments'
           /\ fragments'[i].importance = fragments[i].importance
           /\ fragments'[i].ttl_tier = fragments[i].ttl_tier]_vars

\* The stored fragments a keyword recall with the default budget matches.
Matches(i, p) ==
  /\ fragments[i].keywords \cap p.keywords # {}
  /\ fragments[i].importance >= Scale \div 10
  /\ ~Superseded(links, i)

\* C2: a fragment is visible to caller A through recall iff it is A's own,
\* or owned by "default", or A is a maintenance scope.
C2_RecallVisibility ==
  last.op = "recall" =>
    /\ \A i \in ReturnedIds(last.ret) \cap DOMAIN fragments :
         Visible(fragments[i], last.arg.agentId)
    /\ (last.arg.keywords # {} /\ last.arg.tokenBudget = 0 /\ last.arg.topic = None) =>
         \A i \in DOMAIN fragments :
           (Visible(fragments[i], last.arg.agentId) /\ Matches(i, last.arg))
             => i \in ReturnedIds(last.ret)

\* C3: remember called a second time with identical inputs returns
\* created = false and the id of the first call, and adds no row.
C3_RememberIdempotent ==
  [][(/\ last.op = "remember"
      /\ last.ret.success
      /\ Step("remember")
      /\ last'.arg = last.arg) =>
       /\ last'.ret.success
       /\ "created" \in DOMAIN last'.ret
       /\ last'.ret.created = FALSE
       /\ last'.ret.id = last.ret.id
       /\ Cardinality(DOMAIN fragments') = Cardinality(DOMAIN fragments)]_vars

\* C4: a fragment just stored by remember is returned by a recall on its
\* keywords by the same agent, when the budget has room for it.
C4_RememberThenRecall ==
  [][(/\ last.op = "remember"
      /\ last.ret.success
      /\ Step("recall")
      /\ last'.arg.agentId = last.arg.agentId
      /\ last'.arg.keywords = last.ret.keywords
      /\ last'.arg.topic = None
      /\ last'.arg.tokenBudget = 0) =>
       last.ret.id \in ReturnedIds(last'.ret)]_vars

\* C5: every edge (a, b, r) is mirrored: b is in a.linked_to and a is in
\* b.linked_to.
C5_LinksMirrored ==
  \A e \in links :
    /\ e.to \in fragments[e.from].linked_to
    /\ e.from \in fragments[e.to].linked_to

\* C6: after a fragment is deleted no edge has it as an endpoint and no
\* remaining fragment's linked_to holds its id.
C6_DeleteLeavesNoReference ==
  (last.op = "forget" /\ IsSome(last.arg.id) /\ last.ret.deleted > 0) =>
    /\ \A e \in links : e.from # Get(last.arg.id) /\ e.to # Get(last.arg.id)
    /\ \A j \in DOMAIN fragments : Get(last.arg.id) \notin fragments[j].linked_to

\* The ids of fragments that were stored and are gone.
DeletedIds == (1..(nextId - 1)) \ DOMAIN fragments

\* C7: once a consolidation run has completed, no surviving fragment's
\* linked_to holds the id of a fragment deleted before the run.
C7_ConsolidationPrunesDangling ==
  [][Step("consolidate") =>
       \A i \in DeletedIds : \A j \in DOMAIN fragments' :
         i \notin fragments'[j].linked_to]_vars

VersionOf(F, id, agent) ==
  [fragment_id |-> id, content |-> F[id].content, topic |-> F[id].topic,
   keywords |-> F[id].keywords, type |-> F[id].type,
   importance |-> F[id].importance, amended_by |-> agent]

\* C8: an amend that updates a fragment has archived a fragment_versions
\* row equal to the fragment's state before the amendment.
C8_AmendArchivesFirst ==
  [][(Step("amend") /\ last'.ret.updated) =>
       /\ Len(versions') > Len(versions)
       /\ versions'[Len(versions) + 1] =
            VersionOf(fragments, last'.arg.id, last'.arg.agentId)]_vars

\* The other fragments whose content hash an amend's new content collides with.
Colliding(p) ==
  {b \in DOMAIN fragments :
     b # p.id /\ fragments[b].content_hash = ContentHash(Truncate(Get(p.content)))}

\* C9: an amend whose new content collides with a different fragment B
\* returns {updated: false, merged: true, existingId: B}, changes neither
\* row and writes no version row.
C9_AmendCollisionMerges ==
  [][(/\ Step("amend")
      /\ IsSome(last'.arg.content)
      /\ getById(fragments, last'.arg.id, last'.arg.agentId) # None
      /\ Colliding(last'.arg) # {}) =>
       /\ ~last'.ret.updated
       /\ last'.ret.merged
       /\ last'.ret.existingId \in Colliding(last'.arg)
       /\ fragments' = fragments
       /\ versions' = versions]_vars

\* The token estimate of a returned fragment: the stored estimated_tokens.
TokensOf(f) ==
  IF f.id \in DOMAIN fragments THEN fragments[f.id].estimated_tokens
  ELSE CountTokens(f.content)

\* C10: the estimated tokens of the whole list recall returns, linked
\* fragments included, sum to at most the token budget.
C10_RecallWithinBudget ==
  last.op = "recall" =>
    SeqSum([i \in 1..Len(last.ret.fragments) |-> TokensOf(last.ret.fragments[i])])
      <= (IF last.arg.tokenBudget > 0 THEN last.arg.tokenBudget
          ELSE DEFAULT_TOKEN_BUDGET)

\* C11: forget(id) on a permanent fragment the caller can see deletes it
\* only with force: without force it returns {deleted: 0, protected: 1} and
\* the row stays as it was; with force it returns {deleted: 1, protected: 0}
\* and the row is gone.
C11_PermanentNeedsForce ==
  [][(/\ Step("forget")
      /\ IsSome(last'.arg.id)
      /\ last'.arg.topic = None
      /\ getById(fragments, Get(last'.arg.id), last'.arg.agentId) # None
      /\ fragments[Get(last'.arg.id)].ttl_tier = "permanent") =>
       IF last'.arg.force
       THEN /\ last'.ret.deleted = 1
            /\ last'.ret.protected = 0
            /\ Get(last'.arg.id) \notin DOMAIN fragments'
       ELSE /\ last'.ret.deleted = 0
            /\ last'.ret.protected = 1
            /\ Get(last'.arg.id) \in DOMAIN fragments'
            /\ fragments' = fragments]_vars

\* A forget without force was turned away from a permanent fragment.
C11_Witness ==
  /\ last.op = "forget"
  /\ ~last.arg.force
  /\ last.ret.protected = 1
  /\ IsSome(last.arg.id)
  /\ Get(last.arg.id) \in DOMAIN fragments
  /\ fragments[Get(last.arg.id)].ttl_tier = "permanent"

\* C12: once forget has deleted a fragment no later recall returns it,
\* whichever layer would serve it and whatever recall overlapped the forget.
C12_ForgottenNeverRecalled ==
  last.op = "recall" => ReturnedIds(last.ret) \cap DeletedIds = {}

\* Whether a remember call takes the durable path.
Durable(p) == ~(p.scope = "session" /\ IsSome(p.sessionId))

\* C13: a remember that fails before or at the store insert (content
\* rejected, store unreachable) returns the failure and has none of the later
\* effects: nothing indexed, no edge, no evaluation job, no row.
C13_FailureBeforeInsertHasNoEffect ==
  [][(/\ Step("remember")
      /\ \/ ~Valid(last'.arg)
         \/ Durable(last'.arg) /\ ~last'.up) =>
       /\ ~last'.ret.success
       /\ UNCHANGED <<fragments, links, kwIdx, tpIdx, tyIdx, recent, hot,
                      evalQueue, wm>>]_vars

\* A remember was refused by an unreachable store while rows were stored.
C13_Witness ==
  /\ last.op = "remember"
  /\ Valid(last.arg)
  /\ Durable(last.arg)
  /\ ~last.up
  /\ ~last.ret.success
  /\ fragments # <<>>

\* C14: once the store insert has succeeded, a failing later step (index,
\* caller-supplied links, conflict scan, auto-link, enqueue) does not reach
\* the caller: remember returns success with the id of the stored fragment.
C14_LaterFailuresSwallowed ==
  [][(/\ Step("remember")
      /\ Valid(last'.arg)
      /\ Durable(last'.arg)
      /\ ~insert(fragments, FactoryCreate(last'.arg), nextId, OPENAI_API_KEY, now,
                 last'.up).err
      /\ last'.fail # "none") =>
       /\ last'.ret.success
       /\ last'.ret.id \in DOMAIN fragments']_vars

\* A remember whose caller-supplied links failed returned success.
C14_Witness ==
  /\ last.op = "remember"
  /\ last.fail = "links"
  /\ last.arg.linkedTo # {}
  /\ last.ret.success
  /\ last.ret.id \in DOMAIN fragments
  /\ \A e \in links : e.rel # "related"

\* C15: when a stage of a consolidation run fails, the later stages of the
\* run still execute: with the TTL stage failing, the importance decay is
\* still applied to every fragment that stays stored.
C15_LaterStagesStillRun ==
  [][(Step("consolidate") /\ last'.failAt = "ttl") =>
       \A i \in DOMAIN fragments \cap DOMAIN fragments' :
         fragments'[i].importance <= decayImportance(fragments, now)[i].importance]_vars

\* The fragment of a pair created first, and the one created after it.
Older(F, pr) == IF Later(Stamp(F, pr[1]), Stamp(F, pr[2])) THEN pr[2] ELSE pr[1]

Newer(F, pr) == IF Later(Stamp(F, pr[1]), Stamp(F, pr[2])) THEN pr[1] ELSE pr[2]

\* C16: when a run confirms one pair of fragments contradictory, the links
\* then hold a contradicts edge between the two and a superseded_by edge from
\* the older to the newer, the older fragment's importance is half of what it
\* was unless it is an anchor, the newer fragment's importance is what it
\* was, and both fragments are still stored.
C16_ResolvedContradiction ==
  [][(Step("consolidate") /\ pending = <<>>)
       => \A pr \in last'.nliResolved \cup last'.llmResolved :
            LET B == last'.before.F
                o == Older(B, pr)
                n == Newer(B, pr)
            IN /\ \E e \in links' : e.rel = "contradicts" /\ {e.from, e.to} = {o, n}
               /\ \E e \in links' : e.rel = "superseded_by" /\ e.from = o /\ e.to = n
               /\ {o, n} \subseteq DOMAIN fragments'
               /\ fragments'[o].importance =
                    IF B[o].is_anchor THEN B[o].importance ELSE B[o].importance \div 2
               /\ fragments'[n].importance = B[n].importance]_vars

\* C17: every pair the NLI model classifies as a contradiction with a score of
\* at least 0.8 has a contradicts edge when the detector returns, and the
\* detector has not asked the LLM about that pair.
C17_NliContradictionRecordedWithoutLlm ==
  [][Step("consolidate")
       => \A pr \in last'.nliResolved :
            /\ \E e \in last'.detected.L :
                 e.rel = "contradicts" /\ {e.from, e.to} = {pr[1], pr[2]}
            /\ pr \notin last'.asked]_vars

\* C19: a remember whose content hash equals that of a stored fragment
\* returns that fragment's id and leaves its importance at the greater of the
\* stored importance and the new fragment's importance.
C19_DuplicateInsertRaisesImportance ==
  [][\A i \in DOMAIN fragments :
       (/\ Step("remember")
        /\ Valid(last'.arg) /\ Durable(last'.arg) /\ last'.up
        /\ fragments[i].content_hash = ContentHash(FactoryCreate(last'.arg).content))
         => LET new == FactoryCreate(last'.arg).importance
                old == fragments[i].importance
            IN /\ last'.ret.success
               /\ last'.ret.id = i
               /\ i \in DOMAIN fragments'
               /\ fragments'[i].importance = IF new > old THEN new ELSE old]_vars

\* C20: a remember with scope "session" inserts no row in the store, adds
\* nothing to the keyword, topic, type and recency indexes, creates no edge
\* and enqueues no evaluation job.
C20_SessionScopeOnlyWorkingMemory ==
  [][(Step("remember") /\ Valid(last'.arg) /\ last'.arg.scope = "session")
       => UNCHANGED <<fragments, links, kwIdx, tpIdx, tyIdx, recent, evalQueue>>]_vars

C22_NoJobWhenPoolCloses ==
  [][(poolPrimary = "open" /\ poolPrimary' = "closed")
       => evaluator'.pc # "evaluating"]_vars

\* The tiers from the shortest-lived to the longest-lived.
TierRank(tier) ==
  CASE tier = "cold" -> 1
    [] tier = "warm" -> 2
    [] tier = "hot" -> 3
    [] OTHER -> 4

\* C23: where every fragment was stored by remember with isAnchor = true, a
\* consolidation run deletes no fragment, lowers no importance and moves no
\* fragment to a shorter-lived tier.
C23_RememberedAnchorsExempt ==
  [][Step("consolidate") =>
       \A i \in DOMAIN fragments :
         /\ i \in DOMAIN fragments'
         /\ fragments'[i].importance >= fragments[i].importance
         /\ TierRank(fragments'[i].ttl_tier) >= TierRank(fragments[i].ttl_tier)]_vars

\* C24: the content of every stored fragment is PII-redacted: redacting it
\* again changes nothing, whatever remember, reflect and amend calls were made.
C24_StoredContentRedacted ==
  \A i \in DOMAIN fragments : RedactPII(fragments[i].content) = fragments[i].content

\* The ids reached from a set of ids along the edges of fragment_links, in
\* their direction.
RECURSIVE PathsFrom(_, _, _)
PathsFrom(L, frontier, visited) ==
  IF frontier \subseteq visited THEN visited
  ELSE PathsFrom(L, {e.to : e \in {x \in L : x.from \in frontier \ visited}},
                 visited \cup frontier)

\* Adding the edge from -> to closes a cycle: a path to -> ... -> from exists.
ClosesCycle(L, from, to) == from \in PathsFrom(L, {to}, {})

\* The edges reflect owes for the fragments it returned.
SessionEdges(made) ==
  {[from |-> e.id, to |-> d.id, rel |-> "caused_by"] :
     e \in {m \in Range(made) : m.type = "error"},
     d \in {m \in Range(made) : m.type = "decision"}}
  \cup {[from |-> q.id, to |-> e.id, rel |-> "resolved_by"] :
          q \in {m \in Range(made) : m.type = "procedure"},
          e \in {m \in Range(made) : m.type = "error"}}

\* C25: after a reflect that succeeded, every error/decision pair of its
\* fragments has its caused_by edge and every procedure/error pair its
\* resolved_by edge, except the edges that would close a cycle.
C25_ReflectLinksEveryPair ==
  [][(Step("reflect") /\ last'.ret.success) =>
       \A e \in SessionEdges(last'.ret.fragments) :
         e \in links' \/ ClosesCycle(links', e.from, e.to)]_vars

\* The rows of a topic the caller sees.
TopicRows(F, topic, agent) == {i \in VisibleIds(F, agent) : F[i].topic = topic}

\* C26: forget with a topic deletes every fragment of that topic the caller
\* sees, except the permanent ones when force is not set, which stay and are
\* counted in protected.
C26_ForgetTopicDeletesAll ==
  [][(Step("forget") /\ IsSome(last'.arg.topic) /\ ~IsSome(last'.arg.id)) =>
       LET p    == last'.arg
           rows == TopicRows(fragments, Get(p.topic), p.agentId)
           kept == {i \in rows : Protected(fragments, i, p.force)}
       IN /\ \A i \in rows \ kept : i \notin DOMAIN fragments'
          /\ \A i \in kept : i \in DOMAIN fragments'
          /\ last'.ret.protected = Cardinality(kept)]_vars

\* A link call that links with resolved_by an error fragment of importance
\* above 0.5.
ResolvesError ==
  /\ Step("link")
  /\ last'.ret.linked
  /\ last'.arg.relationType = "resolved_by"
  /\ fragments[last'.arg.toId].type = "error"
  /\ fragments[last'.arg.toId].importance > Scale \div 2

\* C27: a resolved_by link to an error fragment of importance above 0.5
\* creates the edge and halves the error fragment's importance.
C27_ResolvedByHalvesError ==
  [][ResolvesError =>
       LET p == last'.arg
       IN /\ [from |-> p.fromId, to |-> p.toId, rel |-> "resolved_by"] \in links'
          /\ fragments'[p.toId].importance = fragments[p.toId].importance \div 2]_vars

\* C27 as amended: such a link creates the edge and lowers the error
\* fragment's importance to 0.5, whatever it was.
C27_ResolvedByLowersErrorToHalf ==
  [][ResolvesError =>
       LET p == last'.arg
       IN /\ [from |-> p.fromId, to |-> p.toId, rel |-> "resolved_by"] \in links'
          /\ fragments'[p.toId].importance = Scale \div 2]_vars

\* A resolved_by link has just lowered an error fragment from above 0.5: the
\* state it had is the newest archived version.
C27_Witness ==
  /\ last.op = "link"
  /\ last.ret.linked
  /\ last.arg.relationType = "resolved_by"
  /\ [from |-> last.arg.fromId, to |-> last.arg.toId, rel |-> "resolved_by"] \in links
  /\ fragments[last.arg.toId].type = "error"
  /\ fragments[last.arg.toId].importance = Scale \div 2
  /\ Len(versions) > 0
  /\ versions[Len(versions)].fragment_id = last.arg.toId
  /\ versions[Len(versions)].importance > Scale \div 2

\* C28: the totalTokens recall reports is the sum of estimated_tokens of the
\* fragments it returns.
C28_TotalTokensIsSumOfEstimates ==
  last.op = "recall" =>
    last.ret.totalTokens =
      SeqSum([i \in 1..Len(last.ret.fragments) |-> TokensOf(last.ret.fragments[i])])

\* What fragment_versions keeps of a row.
Archived(row) ==
  [content |-> row.content, topic |-> row.topic, keywords |-> row.keywords,
   type |-> row.type, importance |-> row.importance]

\* C29: when an amend overwrites a fragment, the state it overwrites is a row
\* of fragment_versions afterwards, also when two amends of the fragment
\* overlap.
C29_OverwrittenStateArchived ==
  [][\A c \in Clients :
       (calls[c].pc = "archived" /\ calls'[c] = Idle) =>
         \A i \in DOMAIN fragments \cap DOMAIN fragments' :
           Archived(fragments'[i]) # Archived(fragments[i]) =>
             \E k \in 1..Len(versions') :
               /\ versions'[k].fragment_id = i
               /\ Archived(versions'[k]) = Archived(fragments[i])]_vars

\* The rows that hold the content a remember call stores.
RowsHolding(p) ==
  {i \in DOMAIN fragments :
     fragments[i].content_hash = ContentHash(FactoryCreate(p).content)}

\* C30: when two clients have remembered the same content for the same
\* agent, also with their calls overlapping, the store holds exactly one row
\* with that content and both calls returned its id.
C30_ConcurrentRememberOneRow ==
  \A c, d \in Clients :
    (/\ c # d
     /\ calls[c].pc = "done"
     /\ calls[d].pc = "done"
     /\ calls[c].arg.content = calls[d].arg.content
     /\ calls[c].arg.agentId = calls[d].arg.agentId) =>
      \E i \in DOMAIN fragments :
        /\ RowsHolding(calls[c].arg) = {i}
        /\ calls[c].ret = Some(i)
        /\ calls[d].ret = Some(i)

\* The rows with a remember call's content that its caller cannot see.
HiddenHolders(F, p) ==
  {i \in DOMAIN F \ VisibleIds(F, p.agentId) :
     F[i].content_hash = ContentHash(FactoryCreate(p).content)}

\* C31: a remember of content that a row hidden from the caller holds stores
\* a row owned by the caller, returns an id other than the hidden row's and
\* leaves the hidden row as it was.
C31_HashUniquePerScope ==
  [][(/\ Step("remember")
      /\ Valid(last'.arg)
      /\ last'.arg.scope = "permanent"
      /\ HiddenHolders(fragments, last'.arg) # {}) =>
       /\ last'.ret.success
       /\ last'.ret.id \notin HiddenHolders(fragments, last'.arg)
       /\ \E j \in DOMAIN fragments' :
            /\ fragments'[j].agent_id = last'.arg.agentId
            /\ fragments'[j].content_hash = ContentHash(FactoryCreate(last'.arg).content)
       /\ \A i \in HiddenHolders(fragments, last'.arg) :
            i \in DOMAIN fragments' /\ fragments'[i] = fragments[i]]_vars

\* C32: a scoped query is evaluated under its own request's agent id, and a
\* connection that is back in the pool carries no scope setting.
C32_ScopedQueriesIsolated ==
  /\ \A c \in Clients :
       (calls[c].pc \in {"ran", "threw", "ended"}) =>
          calls[c].ran = Some(Some(calls[c].agent))
  /\ \A k \in Conns : ~conns[k].held => conns[k].scope = None

\* C33: after an addition to a session's working memory the list's total
\* estimated_tokens is at most 500, or every entry left has importance > 0.8.
C33_WorkingMemoryWithinBudget ==
  [][(Step("remember") /\ Valid(last'.arg) /\ last'.arg.scope = "session"
        /\ IsSome(last'.arg.sessionId))
      => LET list == wm'[Get(last'.arg.sessionId)]
         IN \/ SeqSum([i \in 1..Len(list) |-> list[i].estimated_tokens])
                 <= WM_MAX_TOKENS
            \/ \A i \in 1..Len(list) : list[i].importance > 800]_vars

\* C34: an auto-reflect that stores new fragments for a session runs while
\* the session is not marked reflected, and no other close of that session
\* has stored fragments before it.
C34_AutoReflectPersistsOnce ==
  [][\A c \in Clients :
       (calls[c].pc = "read" /\ calls'[c].pc # "read" /\ nextId' > nextId)
         => /\ ~activity[calls[c].sid].reflected
            /\ \A d \in Clients \ {c} :
                 ~(/\ calls[d].pc \in {"marking", "closing"}
                   /\ calls[d].sid = calls[c].sid
                   /\ calls[d].made > 0)]_vars

\* C35: a session's reflected flag, once true, stays true.
C35_ReflectedNeverReverts ==
  [][\A s \in Sessions : activity[s].reflected => activity'[s].reflected]_vars

\* The loops that are evaluating a job or will pass the test of their
\* while and poll the queue.
Dequeuing ==
  (IF evaluator.pc = "evaluating" \/ (evaluator.pc = "idle" /\ evaluator.running)
   THEN {0} ELSE {})
  \cup {i \in DOMAIN evaluator.more :
          \/ evaluator.more[i].pc = "evaluating"
          \/ evaluator.more[i].pc = "idle" /\ evaluator.running}

\* C36: at most one poll loop of the evaluator takes jobs from the queue.
C36_OnePollLoop == Cardinality(Dequeuing) <= 1

\* The importance a fragment was stored with: in SpecContradictions every
\* content is stored by one set of parameters.
StoredImportance(c) ==
  LET p == CHOOSE q \in ContradictionParams : FactoryCreate(q).content = c
  IN FactoryCreate(p).importance

\* C37: the superseded fragment of a contradictory pair is halved at most
\* once: no fragment (each is in one pair at most) falls below half of the
\* importance it was stored with.
C37_SupersededHalvedOnce ==
  \A i \in DOMAIN fragments :
    fragments[i].importance * 2 >= StoredImportance(fragments[i].content)

\* C38: a consolidation run takes at most 10 entries from the pending list,
\* and when the Gemini CLI's verdict could not be obtained the entries taken
\* are on the list afterwards.
C38_PendingBatchKeepsEntries ==
  [][Step("consolidate") =>
       /\ Len(pending') + batchSize >= Len(last'.detected.P)
       /\ last'.arg.llm = "failed" =>
            \A e \in Range(last'.detected.P) : e \in Range(pending')]_vars

\* The rows the expiration sweep of a run sees: the store after the tier
\* transitions and the decay of that run.
Swept == decayImportance(transitionTTL(fragments, now), now)

\* C39: the expiration sweep of a run deletes exactly the rows with
\* importance < 0.1, a tier other than permanent, no anchor flag, a last
\* access (or, never accessed, a creation) more than 90 days ago and fewer
\* than 2 linked_to entries.
C39_SweepDeletesExactlyExpired ==
  [][(Step("consolidate") /\ last'.failAt = "none") =>
       DOMAIN fragments \ DOMAIN fragments' =
         {i \in DOMAIN Swept :
            /\ Swept[i].importance < 100
            /\ Swept[i].ttl_tier # "permanent"
            /\ ~Swept[i].is_anchor
            /\ IF IsSome(Swept[i].accessed_at)
               THEN Get(Swept[i].accessed_at) < now - 90
               ELSE Swept[i].created_at < now - 90
            /\ Cardinality(Swept[i].linked_to) < 2}]_vars

\* C40: the model load is started at most once, a call made while it is in
\* flight is given its promise, and a call made after a failed load returns
\* null at once and starts nothing.
C40_NliLoadedOnce ==
  [][/\ Len(nliModel'.loads) <= 1
     /\ \A c \in Clients :
          (calls[c].pc # "awaiting" /\ calls'[c] # calls[c]) =>
             /\ IsSome(nliModel.loading) =>
                  /\ calls'[c].pc = "awaiting"
                  /\ calls'[c].promise = Get(nliModel.loading)
             /\ nliModel.failed =>
                  /\ calls'[c].pc = "done" /\ calls'[c].ret = "null"
                  /\ nliModel' = nliModel]_vars

\* Two callers have shared one load, it failed, and a later call returned
\* null at once.
C40_Witness ==
  /\ nliModel.failed /\ Len(nliModel.loads) = 1
  /\ \E c, d \in Clients :
       /\ c # d
       /\ calls[c].pc = "done" /\ calls[c].how = "failed" /\ calls[c].ret = "null"
       /\ calls[d].pc = "done" /\ calls[d].how = "share" /\ calls[d].ret = "null"

====
